---- MODULE Spec2Model ----
(***************************************************************************)
(* lotus-bot: the wallet/UTXO engine (src/lib/wallet.ts, WalletManager)    *)
(* and the command orchestrator (src/lib/handler.ts, Handler) with the     *)
(* durable store (src/lib/database.ts) and the Chronik node they talk to.  *)
(*                                                                         *)
(* The program is single-threaded and cooperative: every `await` of a node *)
(* or store call is a suspension point.  One action of the model is one    *)
(* run-to-suspension piece of a handler.  A call whose continuation reads  *)
(* or writes WalletManager's memory is split into the moment the external  *)
(* system answers and the moment the continuation runs (_reconcileUtxos);  *)
(* a call whose continuation touches only the task's own locals is one     *)
(* action placed at the moment the external system executes it.            *)
(***************************************************************************)
EXTENDS Integers, Sequences, FiniteSets, TLC

\* ------------------------------------------------------------------ bounds
MaxCmds == 2          \* platform commands ever started
MaxExtDeposits == 1   \* transactions sent to a tracked address from outside
MaxRedeliver == 1     \* spontaneous redeliveries of a feed message
MaxFaults == 1        \* node/store calls that throw
MaxRestarts == 1      \* restarts of the service process
MaxLinks == 2         \* link commands among the platform commands
MaxNewcomers == 1     \* _saveAccount runs for users the store does not know
MaxPairs == 1         \* outside transactions that pay two tracked addresses
MaxGenUtxos == 3      \* outputs in the ledger a transaction is built from
MaxRecUtxos == 4      \* entries of the list a reconciliation filters

\* What a run may still do.  The runs explored are those with MaxCmds
\* concurrent commands, of which up to MaxLinks are link commands, a feed
\* that delivers each transaction's messages once and at most MaxFaults
\* calls that throw; those with one command fewer and a feed that delivers
\* outside deposits and redelivers messages; those with one command fewer,
\* outside deposits and MaxRestarts restarts of the process; those with one
\* command fewer that may be a link command or come from or give to a
\* platform user the store does not know yet, with calls that throw; and
\* those without commands in which an outside transaction pays two tracked
\* addresses at once and the process restarts.
Budgets ==
  {[cmds |-> MaxCmds, ext |-> 0, redeliver |-> 0, faults |-> MaxFaults,
    restarts |-> 0, links |-> MaxLinks, newcomers |-> 0, pairs |-> 0],
   [cmds |-> MaxCmds - 1, ext |-> MaxExtDeposits, redeliver |-> MaxRedeliver,
    faults |-> 0, restarts |-> 0, links |-> 0, newcomers |-> 0, pairs |-> 0],
   [cmds |-> MaxCmds - 1, ext |-> MaxExtDeposits, redeliver |-> 0,
    faults |-> 0, restarts |-> MaxRestarts, links |-> 0, newcomers |-> 0, pairs |-> 0],
   [cmds |-> MaxCmds - 1, ext |-> 0, redeliver |-> 0, faults |-> MaxFaults,
    restarts |-> 0, links |-> MaxLinks - 1, newcomers |-> MaxNewcomers,
    pairs |-> 0],
   [cmds |-> 0, ext |-> 0, redeliver |-> 0, faults |-> MaxFaults,
    restarts |-> MaxRestarts, links |-> 0, newcomers |-> 0,
    pairs |-> MaxPairs]}

\* --------------------------------------------------------------- constants
MIN_OUTPUT_AMOUNT == 1000
DUST_LIMIT == 546
FEE_RATE == 2
WITHDRAW_CHANGE_OUTIDX == 1
TX_OVERHEAD == 10
TX_INPUT_SIZE == 148
TX_OUTPUT_SIZE == 34
XPI_DIVISOR == 1000000
\* The value of the output every user of the first account starts with, and
\* of an outside deposit (50 XPI and 1 XPI).
InitValue == 50 * XPI_DIVISOR
DepositValue == 1 * XPI_DIVISOR

\* u3 is a platform user the store does not know at the start; a3 is the
\* account _saveAccount creates for it.
NEW_USER == "u3"
NEW_ACCOUNT == "a3"
Users == {"u1", "u2", NEW_USER}
AccountIds == {"a1", "a2", NEW_ACCOUNT}
EXT == "ext"
\* Amounts a platform user asks to give or withdraw (sats, after Util.toSats).
Amounts == {0, 500, 10 * XPI_DIVISOR, 50 * XPI_DIVISOR}

VARIABLES
  txs,          \* every transaction ever built or seen; a txid is its index
  chain,        \* txids the node has accepted (mempool or block)
  wsPending,    \* per txid: AddedToMempool messages the feed has yet to deliver
  utxos,        \* WalletManager.keys[userId].utxos
  accounts,     \* WalletManager.accounts[accountId]: member userIds, in order
  userAccount,  \* store: user.accountId
  gives,        \* store: Give records
  withdrawals,  \* store: Withdrawal records
  deposits,     \* store: Deposit records
  tasks,        \* every asynchronous handler invocation, running or finished
  running,      \* FALSE once Handler.shutdown() was emitted
  budget        \* what the run may still do (see Budgets)

vars == <<txs, chain, wsPending, utxos, accounts, userAccount, gives,
          withdrawals, deposits, tasks, running, budget>>

\* ----------------------------------------------------------------- helpers
Range(s) == {s[i] : i \in DOMAIN s}

RECURSIVE SumValues(_)
SumValues(s) == IF s = <<>> THEN 0 ELSE s[1].value + SumValues(Tail(s))

RECURSIVE SelectSeq2(_, _, _)
\* utxos.filter((utxo, i) => keep(result[i])): the elements whose index is in
\* `keep`, in their original order.
SelectSeq2(s, keep, i) ==
  IF i > Len(s) THEN <<>>
  ELSE (IF i \in keep THEN <<s[i]>> ELSE <<>>) \o SelectSeq2(s, keep, i + 1)

\* WalletManager.toOutpoint
toOutpoint(utxo) == [txid |-> utxo.txid, outIdx |-> utxo.outIdx]

\* ------------------------------------------------------------ the node
\* The outpoints the accepted transactions consume.
SpentOutpoints(ch) == UNION {Range(txs[t].ins) : t \in ch}

\* chronik.validateUtxos: the state of one outpoint.
UtxoState(ch, o) ==
  IF o.txid \notin ch THEN "NO_SUCH_TX"
  ELSE IF o.outIdx >= Len(txs[o.txid].outs) THEN "NO_SUCH_OUTPUT"
  ELSE IF o \in SpentOutpoints(ch) THEN "SPENT"
  ELSE "UNSPENT"

validateUtxos(ch, outpoints) ==
  [i \in DOMAIN outpoints |-> UtxoState(ch, outpoints[i])]

\* The node accepts a transaction whose inputs all exist and are unspent; a
\* transaction it already holds is refused like any other double spend.
NodeAccepts(ch, body) ==
  \A i \in DOMAIN body.ins : UtxoState(ch, body.ins[i]) = "UNSPENT"

\* chronik.script(...).utxos(): the unspent outputs paying script u, as
\* AccountUtxos, by txid and output index.
RECURSIVE ScriptUtxos(_, _, _, _)
ScriptUtxos(ch, u, t, i) ==
  IF t > Len(txs) THEN <<>>
  ELSE IF i > Len(txs[t].outs) THEN ScriptUtxos(ch, u, t + 1, 1)
  ELSE (IF /\ t \in ch
           /\ txs[t].outs[i].script = u
           /\ UtxoState(ch, [txid |-> t, outIdx |-> i - 1]) = "UNSPENT"
        THEN <<[txid |-> t, outIdx |-> i - 1, value |-> txs[t].outs[i].value]>>
        ELSE <<>>) \o ScriptUtxos(ch, u, t, i + 1)

\* The script an outpoint pays.
OutpointScript(o) == txs[o.txid].outs[o.outIdx + 1].script

\* A script subscription is notified of a transaction that pays the script
\* or spends from it: one message per subscribed script involved.
Subscribers(body, accts) ==
  LET members == UNION {Range(accts[a]) : a \in DOMAIN accts}
      involved == {OutpointScript(body.ins[i]) : i \in DOMAIN body.ins}
                  \cup {body.outs[i].script : i \in DOMAIN body.outs}
  IN involved \cap members

\* The txid of a transaction body: deterministic in its content.
TxIdOf(body) ==
  IF \E i \in DOMAIN txs : txs[i] = body
  THEN CHOOSE i \in DOMAIN txs : txs[i] = body
  ELSE Len(txs) + 1

Intern(body) == IF \E i \in DOMAIN txs : txs[i] = body THEN txs ELSE Append(txs, body)
InternWs(body) ==
  IF \E i \in DOMAIN txs : txs[i] = body THEN wsPending ELSE Append(wsPending, 0)

\* ------------------------------------------------------- WalletManager
\* _isExistingUtxo(userId, utxo), on the user's list.
NeverExistingUtxo(list, utxo) == FALSE
_isExistingUtxo(list, utxo) ==
  \E i \in DOMAIN list :
    list[i].txid = utxo.txid /\ list[i].outIdx = utxo.outIdx

\* Array.prototype.splice(idx, 1): idx -1 (findIndex found nothing) counts
\* from the end and removes the last element.
Splice1(arr, idx) ==
  LET at == IF idx = -1 THEN Len(arr) ELSE idx + 1
  IN IF at = 0 THEN arr
     ELSE SubSeq(arr, 1, at - 1) \o SubSeq(arr, at + 1, Len(arr))

\* findIndex(id => id == userId): the first index (from 0), or -1.
FindIndex(arr, userId) ==
  IF \E i \in DOMAIN arr : arr[i] = userId
  THEN (CHOOSE i \in DOMAIN arr : arr[i] = userId /\ \A j \in 1..(i - 1) : arr[j] # userId) - 1
  ELSE -1

\* updateKey(userId, oldAccountId, newAccountId) on the accounts table.
PushOnly(accts, userId, oldAccountId, newAccountId) ==
  [accts EXCEPT ![newAccountId] = Append(@, userId)]
updateKey(accts, userId, oldAccountId, newAccountId) ==
  LET spliced == [accts EXCEPT ![oldAccountId] =
                    Splice1(@, FindIndex(@, userId))]
  IN [spliced EXCEPT ![newAccountId] = Append(@, userId)]

\* The members of any account (the users whose script the feed handler can
\* find by walking Object.values(this.accounts)).
Members(accts) == UNION {Range(accts[a]) : a \in DOMAIN accts}

\* The members of every account of `accts`, account by account.
RECURSIVE AllMembers(_, _)
AllMembers(accts, order) ==
  IF order = <<>> THEN <<>>
  ELSE (IF order[1] \in DOMAIN accts THEN accts[order[1]] ELSE <<>>)
       \o AllMembers(accts, Tail(order))

\* tx._estimateSize() for nIn inputs, one destination and one change output.
EstimateSize(nIn) == TX_OVERHEAD + nIn * TX_INPUT_SIZE + 2 * TX_OUTPUT_SIZE

\* The inner loop without its break: every utxo of the key becomes an input.
AddInputsAll(list, j, ins, outSats) == ins \o SubSeq(list, j, Len(list))

\* The inner loop of _genTx: add the key's utxos as inputs, in list order,
\* until the input amount exceeds outSats.
RECURSIVE AddInputs(_, _, _, _)
AddInputs(list, j, ins, outSats) ==
  IF j > Len(list) THEN ins
  ELSE LET ins2 == Append(ins, list[j])
       IN IF SumValues(ins2) > outSats THEN ins2
          ELSE AddInputs(list, j + 1, ins2, outSats)

NoTx == [ok |-> FALSE, err |-> "undefined"]

\* The tail of _genTx once the inputs cover outSats: fee, change to the
\* current key's address, destination output, sign, verify.
BuildTxKeepsFee(ins, changeUser, outScript, outSats) ==
  LET amt == SumValues(ins)
      txFee == EstimateSize(Len(ins)) * FEE_RATE
      dest == IF outSats + txFee > amt THEN outSats - txFee ELSE outSats
      change == amt - dest
  IN IF dest < 0
     THEN [ok |-> FALSE, err |-> "throw"]
     ELSE [ok |-> TRUE,
           inputs |-> ins,
           body |-> [ins |-> [i \in DOMAIN ins |-> toOutpoint(ins[i])],
                     outs |-> <<[script |-> outScript, value |-> dest]>>
                              \o (IF change > 0
                                  THEN <<[script |-> changeUser, value |-> change]>>
                                  ELSE <<>>),
                     nonce |-> 0]]
BuildTxFeeOnEqual(ins, changeUser, outScript, outSats) ==
  LET amt == SumValues(ins)
      txFee == EstimateSize(Len(ins)) * FEE_RATE
      dest == IF amt = outSats THEN outSats - txFee ELSE outSats
      change == amt - dest - txFee
  IN IF dest < 0
     THEN [ok |-> FALSE, err |-> "throw"]
     ELSE [ok |-> TRUE,
           inputs |-> ins,
           body |-> [ins |-> [i \in DOMAIN ins |-> toOutpoint(ins[i])],
                     outs |-> <<[script |-> outScript, value |-> dest]>>
                              \o (IF change > 0
                                  THEN <<[script |-> changeUser, value |-> change]>>
                                  ELSE <<>>),
                     nonce |-> 0]]
BuildTx(ins, changeUser, outScript, outSats) ==
  LET amt == SumValues(ins)
      txFee == EstimateSize(Len(ins)) * FEE_RATE
      dest == IF outSats + txFee > amt THEN outSats - txFee ELSE outSats
      change == amt - dest - txFee
  IN IF dest < 0
     THEN [ok |-> FALSE, err |-> "throw"]   \* Output satoshis is not a natural number
     ELSE [ok |-> TRUE,
           inputs |-> ins,
           body |-> [ins |-> [i \in DOMAIN ins |-> toOutpoint(ins[i])],
                     outs |-> <<[script |-> outScript, value |-> dest]>>
                              \o (IF change > 0
                                  THEN <<[script |-> changeUser, value |-> change]>>
                                  ELSE <<>>),
                     nonce |-> 0]]

\* _genTx(userIds, outAddress, outSats) on the ledger `ledger`.  signingKeys
\* holds the key of every member the loop has come to, the current one
\* included (`signingKeys.push(key.signingKey)` opens the loop body); a key
\* is named by its user.
RECURSIVE GenTxLoop(_, _, _, _, _, _)
GenTxLoop(ledger, userIds, k, ins, outScript, outSats) ==
  IF k > Len(userIds) THEN NoTx
  ELSE LET ins2 == AddInputs(ledger[userIds[k]], 1, ins, outSats)
           tx == BuildTx(ins2, userIds[k], outScript, outSats)
       IN IF SumValues(ins2) < outSats
          THEN GenTxLoop(ledger, userIds, k + 1, ins2, outScript, outSats)
          ELSE IF tx.ok
          THEN [ok |-> TRUE, inputs |-> tx.inputs, body |-> tx.body,
                signingKeys |-> SubSeq(userIds, 1, k)]
          ELSE tx

\* A wallet that pools the outputs of every key, as the WalletManager with
\* one `utxos` array did: the inputs come from any user, whatever the
\* account.
genTxPooled(ledger, accts, fromAccountId, outScript, sats) ==
  GenTxLoop(ledger, AllMembers(accts, <<"a1", "a2", NEW_ACCOUNT>>), 1, <<>>,
            outScript, sats)
_genTx(ledger, userIds, outScript, outSats) ==
  GenTxLoop(ledger, userIds, 1, <<>>, outScript, outSats)

\* genTx({fromAccountId, toUserId | outAddress, sats}): _genTx on the
\* members of the source account.
genTx(ledger, accts, fromAccountId, outScript, sats) ==
  _genTx(ledger, accts[fromAccountId], outScript, sats)

\* A handler that looks for the first key paid by the transaction and takes
\* that key's first output only, as the WalletManager with one `utxos` array
\* did.
WsLoopFirstKey(txid, outs, i, accts, st) ==
  LET keys == AllMembers(accts, <<"a1", "a2", NEW_ACCOUNT>>)
      paid == {j \in DOMAIN keys : \E k \in DOMAIN outs : outs[k].script = keys[j]}
  IN IF paid = {} THEN st
     ELSE LET u == keys[CHOOSE j \in paid : \A j2 \in paid : j <= j2]
              mine == {k \in DOMAIN outs : outs[k].script = u}
              k == CHOOSE k1 \in mine : \A k2 \in mine : k1 <= k2
              parsedUtxo == [txid |-> txid, outIdx |-> k - 1, value |-> outs[k].value]
          IN IF _isExistingUtxo(st.utxos[u], parsedUtxo) THEN st
             ELSE [utxos |-> [st.utxos EXCEPT ![u] = Append(@, parsedUtxo)],
                   emitted |-> <<[txid |-> txid, outIdx |-> k - 1,
                                  value |-> outs[k].value, userId |-> u]>>]
\* The output loop of _chronikHandleWsMessage: st.utxos is the ledger so
\* far, st.emitted the AccountUtxos emitted as 'AddedToMempool' so far.
RECURSIVE WsLoop(_, _, _, _, _)
WsLoop(txid, outs, i, accts, st) ==
  IF i > Len(outs) THEN st
  ELSE LET s == outs[i].script
           parsedUtxo == [txid |-> txid, outIdx |-> i - 1, value |-> outs[i].value]
       IN IF s \in Members(accts) /\ ~_isExistingUtxo(st.utxos[s], parsedUtxo)
          THEN WsLoop(txid, outs, i + 1, accts,
                 [utxos |-> [st.utxos EXCEPT ![s] = Append(@, parsedUtxo)],
                  emitted |-> Append(st.emitted,
                     [txid |-> txid, outIdx |-> i - 1, value |-> outs[i].value,
                      userId |-> s])])
          ELSE WsLoop(txid, outs, i + 1, accts, st)

\* _reconcileUtxos' filter: the indices whose state is none of the three.
KeepsSpent(result) ==
  {i \in DOMAIN result : result[i] \notin {"NO_SUCH_TX", "NO_SUCH_OUTPUT"}}
\* A filter that drops the spent outpoints only.
KeepsMissing(result) == {i \in DOMAIN result : result[i] # "SPENT"}
KeptIndices(result) ==
  {i \in DOMAIN result :
     result[i] \notin {"NO_SUCH_TX", "NO_SUCH_OUTPUT", "SPENT"}}

\* ------------------------------------------------------------- tasks
\* One asynchronous invocation: a platform command (processBalanceCommand,
\* processGiveCommand, processWithdrawCommand) or one _saveDeposit started by
\* walletUtxoAddedToMempool.  `out` is "" while it runs and its outcome after.
NoUtxo == [txid |-> 0, outIdx |-> 0, value |-> 0, userId |-> ""]

NewTask(kind, user, to, sats) ==
  [kind |-> kind, pc |-> "new", user |-> user, to |-> to, sats |-> sats,
   acct |-> "", bUser |-> "", bIdx |-> 0, snap |-> <<>>, sent |-> 0,
   alias |-> FALSE, spentAtCall |-> {},
   res |-> <<>>, bal |-> 0, tx |-> 0, utxo |-> NoUtxo, queue |-> <<>>,
   linkAcct |-> "", creating |-> "", members |-> <<>>, counted |-> <<>>,
   initUtxos |-> <<>>, out |-> ""]

\* A returned invocation keeps what it was asked, what it built and what it
\* answered; the locals of its getAccountBalance are gone.
Done(task, out) ==
  [task EXCEPT !.pc = "done", !.out = out, !.bUser = "", !.bIdx = 0,
               !.snap = <<>>, !.sent = 0, !.alias = FALSE, !.res = <<>>,
               !.spentAtCall = {}, !.members = <<>>, !.counted = <<>>]

Idle == NewTask("idle", "", "", 0)

\* Handler.init's loop `for (const deposit of newDeposits)`: _saveDeposit of
\* the next one up to its first await, or init returns.
InitNext(task) ==
  IF task.queue = <<>> THEN Done(task, "initialized")
  ELSE [Done(task, "") EXCEPT !.utxo = Head(task.queue),
                              !.user = Head(task.queue).userId,
                              !.queue = Tail(task.queue), !.pc = "isGiveTx"]

\* _saveDeposit returns: to walletUtxoAddedToMempool, or to Handler.init's
\* loop.
DepositReturn(task, out) ==
  IF task.kind = "init" THEN InitNext(task) ELSE Done(task, out)
IsCmd(task) == task.kind \in {"balance", "give", "withdraw", "link"}
\* Slots 1..MaxCmds of `tasks` hold the platform commands, in the order they
\* arrive; the _saveDeposit invocations in progress follow.
FreeSlot == CHOOSE i \in 1..MaxCmds :
              tasks[i].kind = "idle" /\ \A j \in 1..(i - 1) : tasks[j].kind # "idle"
HasFreeSlot == \E i \in 1..MaxCmds : tasks[i].kind = "idle"

\* tasks without its returned _saveDeposit invocations.
RECURSIVE Sweep(_, _)
Sweep(taskSeq, i) ==
  IF i > Len(taskSeq) THEN <<>>
  ELSE (IF i > MaxCmds /\ taskSeq[i].pc = "done"
        THEN <<>> ELSE <<taskSeq[i]>>) \o Sweep(taskSeq, i + 1)

\* The continuation of `await getAccountBalance(...)` in each caller, run with
\* ledger `ledger` and tx table `table`.
AfterBalanceUnchecked(task, ledger, table) ==
  CASE task.kind = "balance" -> [task |-> Done(task, "ok"), body |-> <<>>]
    [] task.kind \in {"deposit", "init"} ->
         [task |-> DepositReturn(task, "saved"), body |-> <<>>]
    [] task.kind = "give" ->
         [task |-> [task EXCEPT !.pc = "getToIds"], body |-> <<>>]
    [] task.kind = "withdraw" ->
         LET tx == genTx(ledger, accounts, task.acct, task.to, task.sats)
         IN IF tx.ok
            THEN [task |-> [task EXCEPT !.pc = "save"], body |-> <<tx.body>>]
            ELSE [task |-> Done(task, "gentx_error"), body |-> <<>>]
\* A handler that took the account for itself from the sufficiency check to
\* its return would turn a second give or withdrawal of the account away.
TransferInFlight(accountId) ==
  \E i \in 1..MaxCmds :
    /\ tasks[i].kind \in {"give", "withdraw"} /\ tasks[i].acct = accountId
    /\ tasks[i].pc \in {"getToIds", "saveAccount", "loadKey", "save",
                        "broadcast", "delete"}
AfterBalanceExclusive(task, ledger, table) ==
  CASE task.kind = "balance" -> [task |-> Done(task, "ok"), body |-> <<>>]
    [] task.kind \in {"deposit", "init"} ->
         [task |-> DepositReturn(task, "saved"), body |-> <<>>]
    [] task.kind = "give" ->
         IF task.sats > task.bal \/ TransferInFlight(task.acct)
         THEN [task |-> Done(task, "insufficient"), body |-> <<>>]
         ELSE [task |-> [task EXCEPT !.pc = "getToIds"], body |-> <<>>]
    [] task.kind = "withdraw" ->
         IF task.sats > task.bal \/ TransferInFlight(task.acct)
         THEN [task |-> Done(task, "insufficient"), body |-> <<>>]
         ELSE LET tx == genTx(ledger, accounts, task.acct, task.to, task.sats)
              IN IF tx.ok
                 THEN [task |-> [task EXCEPT !.pc = "save"], body |-> <<tx.body>>]
                 ELSE [task |-> Done(task, "gentx_error"), body |-> <<>>]
AfterBalance(task, ledger, table) ==
  CASE task.kind = "balance" -> [task |-> Done(task, "ok"), body |-> <<>>]
    [] task.kind \in {"deposit", "init"} ->
         [task |-> DepositReturn(task, "saved"), body |-> <<>>]
    [] task.kind = "give" ->
         IF task.sats > task.bal
         THEN [task |-> Done(task, "insufficient"), body |-> <<>>]
         ELSE [task |-> [task EXCEPT !.pc = "getToIds"], body |-> <<>>]
    [] task.kind = "withdraw" ->
         IF task.sats > task.bal
         THEN [task |-> Done(task, "insufficient"), body |-> <<>>]
         ELSE LET tx == genTx(ledger, accounts, task.acct, task.to, task.sats)
              IN IF tx.ok
                 THEN [task |-> [task EXCEPT !.pc = "save"], body |-> <<tx.body>>]
                 ELSE [task |-> Done(task, "gentx_error"), body |-> <<>>]

\* getAccountBalance's loop `for (const userId of this.accounts[accountId])`:
\* start _reconcileUtxos for the next member (capture the member's array and
\* send its outpoints to the node), or leave the loop.
FirstMemberOnly(task, ledger, table) ==
  LET arr == accounts[task.acct]
  IN IF task.bIdx = 0 /\ task.bIdx + 1 <= Len(arr)
     THEN [task |-> [task EXCEPT !.bIdx = @ + 1,
                                 !.bUser = arr[task.bIdx + 1],
                                 !.snap = ledger[arr[task.bIdx + 1]],
                                 !.sent = Len(ledger[arr[task.bIdx + 1]]),
                                 !.alias = TRUE,
                                 !.res = <<>>,
                                 !.pc = "validate"],
           body |-> <<>>]
     ELSE AfterBalance(task, ledger, table)
NextMember(task, ledger, table) ==
  LET arr == accounts[task.acct]
  IN IF task.bIdx + 1 <= Len(arr)
     THEN [task |-> [task EXCEPT !.bIdx = @ + 1,
                                 !.bUser = arr[task.bIdx + 1],
                                 !.snap = ledger[arr[task.bIdx + 1]],
                                 !.sent = Len(ledger[arr[task.bIdx + 1]]),
                                 !.alias = TRUE,
                                 !.spentAtCall =
                                    {o \in {toOutpoint(x) : x \in Range(ledger[arr[task.bIdx + 1]])} :
                                       UtxoState(chain, o) # "UNSPENT"},
                                 !.res = <<>>,
                                 !.pc = "validate"],
           body |-> <<>>]
     ELSE AfterBalance(task, ledger, table)

getAccountBalance(task, accountId, ledger, table) ==
  NextMember([task EXCEPT !.acct = accountId, !.bIdx = 0, !.bal = 0,
                          !.members = accounts[accountId], !.counted = <<>>],
             ledger, table)

\* Store the task and, when its step built a transaction, the transaction.
Commit(t, r, taskSeq) ==
  IF r.body = <<>>
  THEN /\ tasks' = Sweep([taskSeq EXCEPT ![t] = r.task], 1)
       /\ UNCHANGED <<txs, wsPending>>
  ELSE /\ tasks' = [taskSeq EXCEPT ![t] = [r.task EXCEPT !.tx = TxIdOf(r.body[1])]]
       /\ txs' = Intern(r.body[1])
       /\ wsPending' = InternWs(r.body[1])

\* A task whose _reconcileUtxos holds a reference to user u's current array.
HoldsArray(task, u) ==
  task.pc \in {"validate", "validated"} /\ task.bUser = u /\ task.alias

\* WalletManager.getUtxos(): every key's utxos tagged with its userId, by
\* account and member.
RECURSIVE FlatUtxos(_, _)
FlatUtxos(ledger, userIds) ==
  IF userIds = <<>> THEN <<>>
  ELSE [i \in DOMAIN ledger[userIds[1]] |->
          [txid |-> ledger[userIds[1]][i].txid,
           outIdx |-> ledger[userIds[1]][i].outIdx,
           value |-> ledger[userIds[1]][i].value,
           userId |-> userIds[1]]]
       \o FlatUtxos(ledger, Tail(userIds))

getUtxos(ledger) ==
  FlatUtxos(ledger, AllMembers(accounts, <<"a1", "a2", NEW_ACCOUNT>>))

\* Handler.init() up to `await this.prisma.getDeposits()`.
InitTask(ledger) ==
  [NewTask("init", "", "", 0) EXCEPT !.pc = "getDeposits",
                                     !.queue = getUtxos(ledger),
                                     !.initUtxos = getUtxos(ledger)]

\* ------------------------------------------------------------------ Init
Init ==
  /\ txs = <<[ins |-> <<>>, outs |-> <<[script |-> "u1", value |-> InitValue]>>,
              nonce |-> 0]>>
  /\ chain = {1}
  /\ wsPending = <<0>>
  /\ utxos = [u \in Users \ {NEW_USER} |->
                IF u = "u1" THEN <<[txid |-> 1, outIdx |-> 0, value |-> InitValue]>>
                ELSE <<>>]
  /\ accounts = [a \in AccountIds \ {NEW_ACCOUNT} |->
                   IF a = "a1" THEN <<"u1">> ELSE <<"u2">>]
  /\ userAccount = [u \in Users \ {NEW_USER} |-> IF u = "u1" THEN "a1" ELSE "a2"]
  /\ gives = {}
  /\ withdrawals = {}
  /\ deposits = <<[txid |-> 1, outIdx |-> 0, value |-> InitValue, userId |-> "u1"]>>
  /\ tasks = [i \in 1..MaxCmds |-> Idle] \o <<InitTask(utxos)>>
  /\ running = TRUE
  /\ budget \in Budgets

\* ----------------------------------------------------------- the feed
\* Someone outside sends DepositValue to a tracked user's address.
ExtDeposit(u) ==
  /\ running /\ budget.ext > 0
  /\ u \in DOMAIN utxos
  /\ LET body == [ins |-> <<>>, outs |-> <<[script |-> u, value |-> DepositValue]>>,
                  nonce |-> Len(txs) + 1]
     IN /\ txs' = Append(txs, body)
        /\ chain' = chain \cup {Len(txs) + 1}
        /\ wsPending' = Append(wsPending, Cardinality(Subscribers(body, accounts)))
  /\ budget' = [budget EXCEPT !.ext = @ - 1]
  /\ UNCHANGED <<utxos, accounts, userAccount, gives, withdrawals, deposits,
                 tasks, running>>

\* Someone outside sends one transaction with two outputs, DepositValue to
\* the address of tracked user u and DepositValue to that of v.
ExtDepositPair(u, v) ==
  /\ running /\ budget.pairs > 0
  /\ {u, v} \subseteq DOMAIN utxos
  /\ LET body == [ins |-> <<>>,
                  outs |-> <<[script |-> u, value |-> DepositValue],
                             [script |-> v, value |-> DepositValue]>>,
                  nonce |-> Len(txs) + 1]
     IN /\ txs' = Append(txs, body)
        /\ chain' = chain \cup {Len(txs) + 1}
        /\ wsPending' = Append(wsPending, Cardinality(Subscribers(body, accounts)))
  /\ budget' = [budget EXCEPT !.pairs = @ - 1]
  /\ UNCHANGED <<utxos, accounts, userAccount, gives, withdrawals, deposits,
                 tasks, running>>

\* The feed delivers an AddedToMempool message once more.
Redeliver(txid) ==
  /\ running /\ budget.redeliver > 0
  /\ txid \in chain
  /\ Subscribers(txs[txid], accounts) # {}
  /\ wsPending' = [wsPending EXCEPT ![txid] = @ + 1]
  /\ budget' = [budget EXCEPT !.redeliver = @ - 1]
  /\ UNCHANGED <<txs, chain, utxos, accounts, userAccount, gives, withdrawals,
                 deposits, tasks, running>>

\* _chronikHandleWsMessage for one AddedToMempool message, from the answer of
\* chronik.tx on: push every new output of a tracked script and emit it;
\* each emit starts walletUtxoAddedToMempool -> _saveDeposit, which runs up
\* to its first await (isGiveTx).
WsSpawn(emitted) ==
  [i \in DOMAIN emitted |->
     [NewTask("deposit", emitted[i].userId, "", 0)
        EXCEPT !.pc = "isGiveTx", !.utxo = emitted[i]]]

RECURSIVE PushAll(_, _)
PushAll(taskSeq, emitted) ==
  IF emitted = <<>> THEN taskSeq
  ELSE LET e == emitted[1]
           p == [txid |-> e.txid, outIdx |-> e.outIdx, value |-> e.value]
       IN PushAll([i \in DOMAIN taskSeq |->
                     IF HoldsArray(taskSeq[i], e.userId)
                     THEN [taskSeq[i] EXCEPT !.snap = Append(@, p)]
                     ELSE taskSeq[i]],
                  Tail(emitted))

HandleWsMessage(txid) ==
  /\ running
  /\ txid \in DOMAIN wsPending /\ wsPending[txid] > 0
  /\ wsPending' = [wsPending EXCEPT ![txid] = @ - 1]
  /\ LET st == WsLoop(txid, txs[txid].outs, 1, accounts,
                      [utxos |-> utxos, emitted |-> <<>>])
     IN /\ utxos' = st.utxos
        /\ tasks' = PushAll(tasks, st.emitted) \o WsSpawn(st.emitted)
  /\ UNCHANGED <<txs, chain, accounts, userAccount, gives, withdrawals,
                 deposits, running, budget>>

\* chronik.tx throws: the handler rethrows and the message is lost.
HandleWsMessageFails(txid) ==
  /\ running /\ budget.faults > 0
  /\ txid \in DOMAIN wsPending /\ wsPending[txid] > 0
  /\ wsPending' = [wsPending EXCEPT ![txid] = @ - 1]
  /\ budget' = [budget EXCEPT !.faults = @ - 1]
  /\ UNCHANGED <<txs, chain, utxos, accounts, userAccount, gives, withdrawals,
                 deposits, tasks, running>>

\* ---------------------------------------------------- platform commands
StartTask(r) == Commit(FreeSlot, r, tasks)

\* WalletManager.isValidAddress(outAddress)
INVALID_ADDRESS == "invalid"
AcceptsAnyAddress(outAddress) == TRUE
isValidAddress(outAddress) == outAddress # INVALID_ADDRESS

\* The continuation of `await this._getIds(platform, platformId)` in each
\* command, accountId being the caller's account: the wallet calls up to the
\* first suspension.  An accountId the wallet has no member list for makes
\* getXAddresses and getAccountBalance throw.
AfterGetIds(task, accountId) ==
  CASE task.kind = "link" ->
         [task |-> [task EXCEPT !.acct = accountId, !.pc = "getSecret"],
          body |-> <<>>]
    [] task.kind # "link" /\ accountId \notin DOMAIN accounts ->
         [task |-> Done([task EXCEPT !.acct = accountId], "wallet_error"),
          body |-> <<>>]
    [] task.kind = "withdraw" /\ accountId \in DOMAIN accounts
         /\ task.to \in Range(accounts[accountId]) ->
         [task |-> Done([task EXCEPT !.acct = accountId], "external_only"),
          body |-> <<>>]
    [] OTHER -> getAccountBalance(task, accountId, utxos, txs)

\* _getIds(platform, platformId) when a command arrives: for a user of the
\* store, its ids; for anyone else _saveAccount starts and saveAccount is
\* sent to the store.
GetIds(task) ==
  IF task.user \in DOMAIN userAccount
  THEN AfterGetIds(task, userAccount[task.user])
  ELSE [task |-> [task EXCEPT !.creating = task.user, !.pc = "saveAccount"],
        body |-> <<>>]

\* The number of _saveAccount runs a command with these users may need.
Unknown(users) == Cardinality(users \ DOMAIN userAccount)

\* processBalanceCommand: _getIds, then getAccountBalance.
StartBalance(u) ==
  /\ running /\ budget.cmds > 0
  /\ budget.newcomers >= Unknown({u})
  /\ StartTask(GetIds(NewTask("balance", u, "", 0)))
  /\ budget' = [budget EXCEPT !.cmds = @ - 1, !.newcomers = @ - Unknown({u})]
  /\ UNCHANGED <<chain, utxos, accounts, userAccount, gives, withdrawals,
                 deposits, running>>

\* processGiveCommand up to its first suspension: the minimum check, then
\* _getIds(fromId) and getAccountBalance.
StartGiveUnchecked(from, to, sats) ==
  /\ running /\ budget.cmds > 0
  /\ from # to
  /\ budget.newcomers >= Unknown({from, to})
  /\ StartTask(GetIds(NewTask("give", from, to, sats)))
  /\ budget' = [budget EXCEPT !.cmds = @ - 1,
                              !.newcomers = @ - Unknown({from, to})]
  /\ UNCHANGED <<chain, utxos, accounts, userAccount, gives, withdrawals,
                 deposits, running>>
StartGive(from, to, sats) ==
  /\ running /\ budget.cmds > 0
  /\ from # to
  /\ budget.newcomers >= Unknown({from, to})
  /\ LET task == NewTask("give", from, to, sats)
     IN IF sats < MIN_OUTPUT_AMOUNT
        THEN StartTask([task |-> Done(task, "minimum"), body |-> <<>>])
        ELSE StartTask(GetIds(task))
  /\ budget' = [budget EXCEPT !.cmds = @ - 1,
                              !.newcomers = @ - Unknown({from, to})]
  /\ UNCHANGED <<chain, utxos, accounts, userAccount, gives, withdrawals,
                 deposits, running>>

\* processWithdrawCommand up to its first suspension: the address and
\* minimum checks, then _getIds, getXAddresses and getAccountBalance.
\* outAddress is an outside address (EXT), the address of a key the wallet
\* holds, or a string that is no address.
StartWithdraw(u, outAddress, sats) ==
  /\ running /\ budget.cmds > 0
  /\ outAddress \in Users => outAddress \in DOMAIN utxos
  /\ budget.newcomers >= Unknown({u})
  /\ LET task == NewTask("withdraw", u, outAddress, sats)
     IN IF ~isValidAddress(outAddress)
        THEN StartTask([task |-> Done(task, "invalid_address"), body |-> <<>>])
        ELSE IF sats < MIN_OUTPUT_AMOUNT
        THEN StartTask([task |-> Done(task, "minimum"), body |-> <<>>])
        ELSE StartTask(GetIds(task))
  /\ budget' = [budget EXCEPT !.cmds = @ - 1, !.newcomers = @ - Unknown({u})]
  /\ UNCHANGED <<chain, utxos, accounts, userAccount, gives, withdrawals,
                 deposits, running>>

\* An exception inside a task: a command reports it to its caller;
\* walletUtxoAddedToMempool logs FATAL and calls shutdown(), and so does
\* LotusBot.init when Handler.init throws.
ThrowShutsDown(t, out) ==
  /\ tasks' = Sweep([tasks EXCEPT ![t] = Done(@, out)], 1)
  /\ running' = FALSE
Throw(t, out) ==
  /\ tasks' = Sweep([tasks EXCEPT ![t] = Done(@, out)], 1)
  /\ running' = (tasks[t].kind \notin {"deposit", "init"})

\* ------------------------------------------------ _reconcileUtxos
\* The node answers chronik.validateUtxos for the outpoints sent.  The
\* request carried the outpoints of the array as it was when captured; the
\* answer is computed on the node's state now.
NodeValidate(t) ==
  /\ running
  /\ tasks[t].pc = "validate"
  /\ tasks' = [tasks EXCEPT ![t] =
       [@ EXCEPT !.pc = "validated",
                 !.res = validateUtxos(chain,
                           [i \in 1..tasks[t].sent |-> toOutpoint(tasks[t].snap[i])])]]
  /\ UNCHANGED <<txs, chain, wsPending, utxos, accounts, userAccount, gives,
                 withdrawals, deposits, running, budget>>

\* chronik.validateUtxos throws.
NodeValidateFails(t) ==
  /\ running /\ budget.faults > 0
  /\ tasks[t].pc = "validate"
  /\ Throw(t, "balance_error")
  /\ budget' = [budget EXCEPT !.faults = @ - 1]
  /\ UNCHANGED <<txs, chain, wsPending, utxos, accounts, userAccount, gives,
                 withdrawals, deposits>>

\* The continuation of _reconcileUtxos and of getAccountBalance's loop body:
\* filter the captured array by the node's answer, assign the result as the
\* user's list, add the list's values to the balance and go on to the next
\* member or to the caller's continuation.  result[i] is undefined for an
\* element pushed into the captured array after the request: reading its
\* state throws.
Reconciled(task) == SelectSeq2(task.snap, KeptIndices(task.res), 1)

ReconcileResume(t) ==
  /\ running
  /\ tasks[t].pc = "validated"
  /\ IF Len(tasks[t].snap) > Len(tasks[t].res)
     THEN /\ Throw(t, "balance_error")
          /\ UNCHANGED <<txs, wsPending, utxos>>
     ELSE LET u == tasks[t].bUser
              list == Reconciled(tasks[t])
              ledger == [utxos EXCEPT ![u] = list]
              others == [i \in DOMAIN tasks |->
                           IF i # t /\ HoldsArray(tasks[i], u)
                           THEN [tasks[i] EXCEPT !.alias = FALSE]
                           ELSE tasks[i]]
              task == [tasks[t] EXCEPT !.bal = @ + SumValues(list),
                                       !.counted = Append(@, u)]
          IN /\ utxos' = ledger
             /\ Commit(t, NextMember(task, ledger, txs), others)
             /\ UNCHANGED running
  /\ UNCHANGED <<chain, accounts, userAccount, gives, withdrawals, deposits,
                 budget>>

\* ------------------------------------------------- give and withdraw
\* processGiveCommand at _getIds(toId): for a recipient the store does not
\* know _saveAccount starts; otherwise genTx, then saveGive is sent.
\* genTx returning undefined makes `tx.txid` throw.
GiveGenTx(t) ==
  /\ running
  /\ tasks[t].pc = "getToIds"
  /\ LET task == tasks[t]
         tx == genTx(utxos, accounts, task.acct, task.to, task.sats)
     IN IF task.to \notin DOMAIN userAccount
        THEN Commit(t, [task |-> [task EXCEPT !.creating = task.to,
                                              !.pc = "saveAccount"],
                        body |-> <<>>], tasks)
        ELSE IF task.to \notin DOMAIN utxos
        THEN Commit(t, [task |-> Done(task, "gentx_error"), body |-> <<>>], tasks)
        ELSE IF tx.ok
        THEN Commit(t, [task |-> [task EXCEPT !.pc = "save"], body |-> <<tx.body>>],
                    tasks)
        ELSE Commit(t, [task |-> Done(task, "gentx_error"), body |-> <<>>], tasks)
  /\ UNCHANGED <<chain, utxos, accounts, userAccount, gives, withdrawals,
                 deposits, running, budget>>

GiveRecord(task) ==
  [txid |-> task.tx, fromId |-> task.user, toId |-> task.to, value |-> task.sats]
WithdrawalRecord(task) ==
  [txid |-> task.tx, userId |-> task.user, value |-> task.sats]

\* database.isGiveTx / isWithdrawTx
NeverGiveTx(txid) == FALSE
isGiveTx(txid) == \E g \in gives : g.txid = txid
isWithdrawTx(txid) == \E w \in withdrawals : w.txid = txid

\* The store executes saveGive / saveWithdrawal (txid is the record's key);
\* the command then calls broadcastTx.
BroadcastUnsaved(t) ==
  /\ running
  /\ tasks[t].pc = "save"
  /\ tasks' = [tasks EXCEPT ![t] = [@ EXCEPT !.pc = "broadcast"]]
  /\ UNCHANGED <<txs, chain, wsPending, utxos, accounts, userAccount, gives,
                 withdrawals, deposits, running, budget>>
StoreSave(t) ==
  /\ running
  /\ tasks[t].pc = "save"
  /\ IF tasks[t].kind = "give"
     THEN /\ ~isGiveTx(tasks[t].tx)
          /\ gives' = gives \cup {GiveRecord(tasks[t])}
          /\ UNCHANGED withdrawals
     ELSE /\ ~isWithdrawTx(tasks[t].tx)
          /\ withdrawals' = withdrawals \cup {WithdrawalRecord(tasks[t])}
          /\ UNCHANGED gives
  /\ tasks' = [tasks EXCEPT ![t] = [@ EXCEPT !.pc = "broadcast"]]
  /\ UNCHANGED <<txs, chain, wsPending, utxos, accounts, userAccount, deposits,
                 running, budget>>

\* saveGive / saveWithdrawal throws (the txid is already recorded, or the
\* store is unavailable): the command aborts; nothing is broadcast.
StoreSaveFails(t) ==
  /\ running
  /\ tasks[t].pc = "save"
  /\ \/ /\ IF tasks[t].kind = "give" THEN isGiveTx(tasks[t].tx)
                                     ELSE isWithdrawTx(tasks[t].tx)
        /\ UNCHANGED budget
     \/ /\ budget.faults > 0
        /\ budget' = [budget EXCEPT !.faults = @ - 1]
  /\ tasks' = [tasks EXCEPT ![t] = Done(@, "save_failed")]
  /\ UNCHANGED <<txs, chain, wsPending, utxos, accounts, userAccount, gives,
                 withdrawals, deposits, running>>

\* The ledger after broadcastTx(tx) returned or threw: broadcastTx only
\* sends the bytes; it does not touch keys[...].utxos.
DropInputs(ledger, body) ==
  [u \in DOMAIN ledger |->
     SelectSeq2(ledger[u],
                {i \in DOMAIN ledger[u] : toOutpoint(ledger[u][i]) \notin Range(body.ins)},
                1)]
LedgerAfterBroadcast(ledger, body) == ledger

\* The node accepts the broadcast transaction; broadcastTx returns its txid
\* and the command returns {txid, amount}.
NodeBroadcast(t) ==
  /\ running
  /\ tasks[t].pc = "broadcast"
  /\ NodeAccepts(chain, txs[tasks[t].tx])
  /\ chain' = chain \cup {tasks[t].tx}
  /\ wsPending' = [wsPending EXCEPT ![tasks[t].tx] =
                     @ + Cardinality(Subscribers(txs[tasks[t].tx], accounts))]
  /\ tasks' = [tasks EXCEPT ![t] = Done(@, "ok")]
  /\ utxos' = LedgerAfterBroadcast(utxos, txs[tasks[t].tx])
  /\ UNCHANGED <<txs, accounts, userAccount, gives, withdrawals, deposits,
                 running, budget>>

\* broadcastTx throws: the node rejects the transaction (an input is spent
\* or unknown) or cannot be reached.  The command sends the compensating
\* delete.
NodeBroadcastFails(t) ==
  /\ running
  /\ tasks[t].pc = "broadcast"
  /\ \/ /\ ~NodeAccepts(chain, txs[tasks[t].tx])
        /\ UNCHANGED budget
     \/ /\ budget.faults > 0
        /\ budget' = [budget EXCEPT !.faults = @ - 1]
  /\ tasks' = [tasks EXCEPT ![t] = [@ EXCEPT !.pc = "delete"]]
  /\ utxos' = LedgerAfterBroadcast(utxos, txs[tasks[t].tx])
  /\ UNCHANGED <<txs, chain, wsPending, accounts, userAccount, gives,
                 withdrawals, deposits, running>>

\* deleteGive / deleteWithdrawal (prisma delete where txid), then the
\* command throws "broadcast failed".  The compensating delete is taken to
\* succeed.
KeepGive(txid) == gives
deleteGive(txid) == {g \in gives : g.txid # txid}
KeepWithdrawal(txid) == withdrawals
deleteWithdrawal(txid) == {w \in withdrawals : w.txid # txid}

StoreDelete(t) ==
  /\ running
  /\ tasks[t].pc = "delete"
  /\ IF tasks[t].kind = "give"
     THEN gives' = deleteGive(tasks[t].tx) /\ UNCHANGED withdrawals
     ELSE withdrawals' = deleteWithdrawal(tasks[t].tx) /\ UNCHANGED gives
  /\ tasks' = [tasks EXCEPT ![t] = Done(@, "broadcast_failed")]
  /\ UNCHANGED <<txs, chain, wsPending, utxos, accounts, userAccount, deposits,
                 running, budget>>

\* ------------------------------------------------------- _saveDeposit
\* `await this.prisma.isGiveTx(utxo.txid) || ...`
DepositIsGiveTx(t) ==
  /\ running
  /\ tasks[t].pc = "isGiveTx"
  /\ tasks' = Sweep([tasks EXCEPT ![t] =
       IF isGiveTx(@.utxo.txid) THEN DepositReturn(@, "is_give")
       ELSE [@ EXCEPT !.pc = "isWithdrawTx"]], 1)
  /\ UNCHANGED <<txs, chain, wsPending, utxos, accounts, userAccount, gives,
                 withdrawals, deposits, running, budget>>

\* `... || (await this.prisma.isWithdrawTx(utxo.txid) &&
\*          utxo.outIdx == WalletManager.WITHDRAW_CHANGE_OUTIDX)`
SkipsAnyWithdrawal(utxo) == isWithdrawTx(utxo.txid)
NeverSkipsWithdrawal(utxo) == FALSE
SkipsWithdrawal(utxo) ==
  isWithdrawTx(utxo.txid) /\ utxo.outIdx = WITHDRAW_CHANGE_OUTIDX

DepositIsWithdrawTx(t) ==
  /\ running
  /\ tasks[t].pc = "isWithdrawTx"
  /\ tasks' = Sweep([tasks EXCEPT ![t] =
       IF SkipsWithdrawal(@.utxo) THEN DepositReturn(@, "is_withdraw_change")
       ELSE [@ EXCEPT !.pc = "saveDeposit"]], 1)
  /\ UNCHANGED <<txs, chain, wsPending, utxos, accounts, userAccount, gives,
                 withdrawals, deposits, running, budget>>

\* The store executes saveDeposit; _saveDeposit then asks for the balance of
\* the depositor's account (deposit.user.accountId) to notify the user.
DepositSave(t) ==
  /\ running
  /\ tasks[t].pc = "saveDeposit"
  /\ deposits' = Append(deposits, tasks[t].utxo)
  /\ IF userAccount[tasks[t].user] \in DOMAIN accounts
     THEN /\ Commit(t, getAccountBalance(tasks[t], userAccount[tasks[t].user],
                                         utxos, txs), tasks)
          /\ UNCHANGED running
     ELSE /\ Throw(t, "balance_error")
          /\ UNCHANGED <<txs, wsPending>>
  /\ UNCHANGED <<chain, utxos, accounts, userAccount, gives, withdrawals, budget>>

\* A store call of _saveDeposit throws: walletUtxoAddedToMempool catches it,
\* logs FATAL and shuts the service down.
DepositStoreFails(t) ==
  /\ running /\ budget.faults > 0
  /\ tasks[t].pc \in {"isGiveTx", "isWithdrawTx", "saveDeposit"}
  /\ Throw(t, "store_error")
  /\ budget' = [budget EXCEPT !.faults = @ - 1]
  /\ UNCHANGED <<txs, chain, wsPending, utxos, accounts, userAccount, gives,
                 withdrawals, deposits>>

\* ----------------------------------------------------------------- link
\* Secrets a platform user may present: the secret of a user, or one that
\* matches nobody.
BAD_SECRET == "bad"
Secrets == Users \cup {BAD_SECRET}

\* --------------------------------------------------- account creation
\* The store executes saveAccount: one nested create of the account, the
\* user and the platform row, whose id is the platformId; it fails when the
\* platform row exists by now.  Then loadKey sends the utxos request.
SaveAccount(t) ==
  /\ running
  /\ tasks[t].pc = "saveAccount"
  /\ IF tasks[t].creating \in DOMAIN userAccount
     THEN /\ Throw(t, "getids_error")
          /\ UNCHANGED userAccount
     ELSE /\ userAccount' = userAccount @@ (tasks[t].creating :> NEW_ACCOUNT)
          /\ tasks' = [tasks EXCEPT ![t] = [@ EXCEPT !.pc = "loadKey"]]
          /\ UNCHANGED running
  /\ UNCHANGED <<txs, chain, wsPending, utxos, accounts, gives, withdrawals,
                 deposits, budget>>

\* saveAccount or the node's utxos request throws: _getIds rethrows and the
\* command reports it.  A failure of the utxos request leaves the user in
\* the store without a WalletKey.
SaveAccountFails(t) ==
  /\ running /\ budget.faults > 0
  /\ tasks[t].pc \in {"saveAccount", "loadKey"}
  /\ Throw(t, "getids_error")
  /\ budget' = [budget EXCEPT !.faults = @ - 1]
  /\ UNCHANGED <<txs, chain, wsPending, utxos, accounts, userAccount, gives,
                 withdrawals, deposits>>

\* The continuation of loadKey's `await this._fetchUtxos(...)`: the key with
\* the utxos the node returned, the member list (push, or a new list), the
\* subscription.
LoadKey(t) ==
  /\ running
  /\ tasks[t].pc = "loadKey"
  /\ LET userId == tasks[t].creating
     IN /\ utxos' = utxos @@ (userId :> ScriptUtxos(chain, userId, 1, 1))
        /\ accounts' = IF NEW_ACCOUNT \in DOMAIN accounts
                       THEN [accounts EXCEPT ![NEW_ACCOUNT] = Append(@, userId)]
                       ELSE accounts @@ (NEW_ACCOUNT :> <<userId>>)
        /\ tasks' = [tasks EXCEPT ![t] =
                       IF userId = @.user
                       THEN [@ EXCEPT !.acct = NEW_ACCOUNT, !.creating = "",
                                      !.pc = "gotIds"]
                       ELSE [@ EXCEPT !.creating = "", !.pc = "getToIds"]]
  /\ UNCHANGED <<txs, chain, wsPending, userAccount, gives, withdrawals,
                 deposits, running, budget>>

\* _saveAccount and _getIds have returned the new ids to the command.
GotIds(t) ==
  /\ running
  /\ tasks[t].pc = "gotIds"
  /\ Commit(t, AfterGetIds(tasks[t], tasks[t].acct), tasks)
  /\ UNCHANGED <<chain, utxos, accounts, userAccount, gives, withdrawals,
                 deposits, running, budget>>

\* processLinkCommand(platformId, secret) with a secret given: _getIds, then
\* getAccountIdFromSecret is sent.  The secret of a user whose account is
\* being created is not known to anyone yet.
StartLink(u, secret) ==
  /\ running /\ budget.cmds > 0 /\ budget.links > 0
  /\ secret \in DOMAIN userAccount \cup {BAD_SECRET}
  /\ \A t \in DOMAIN tasks : tasks[t].creating = secret => tasks[t].pc = "done"
  /\ budget.newcomers >= Unknown({u})
  /\ StartTask(GetIds(NewTask("link", u, secret, 0)))
  /\ budget' = [budget EXCEPT !.cmds = @ - 1, !.links = @ - 1,
                              !.newcomers = @ - Unknown({u})]
  /\ UNCHANGED <<chain, utxos, accounts, userAccount, gives, withdrawals,
                 deposits, running>>

\* getAccountIdFromSecret: the account of the user holding the secret.
getAccountIdFromSecret(secret) ==
  IF secret \in DOMAIN userAccount THEN userAccount[secret] ELSE ""

\* processLinkCommand's sanity checks on the account the secret maps to.
LinkChecksNoOwn(task, linkAccountId) ==
  IF linkAccountId = "" THEN Done(task, "invalid_secret")
  ELSE [task EXCEPT !.linkAcct = linkAccountId, !.pc = "updateUser"]
LinkChecks(task, linkAccountId) ==
  IF linkAccountId = "" THEN Done(task, "invalid_secret")
  ELSE IF linkAccountId = task.acct THEN Done(task, "own_or_linked")
  ELSE [task EXCEPT !.linkAcct = linkAccountId, !.pc = "updateUser"]

\* The store answers getAccountIdFromSecret; the sanity checks; then
\* updateUserAccountId is sent.
LinkGetSecret(t) ==
  /\ running
  /\ tasks[t].pc = "getSecret"
  /\ tasks' = [tasks EXCEPT ![t] =
                 LinkChecks(@, getAccountIdFromSecret(tasks[t].to))]
  /\ UNCHANGED <<txs, chain, wsPending, utxos, accounts, userAccount, gives,
                 withdrawals, deposits, running, budget>>

\* The store executes updateUserAccountId(userId, linkAccountId).
LinkUpdateUser(t) ==
  /\ running
  /\ tasks[t].pc = "updateUser"
  /\ userAccount' = [userAccount EXCEPT ![tasks[t].user] = tasks[t].linkAcct]
  /\ tasks' = [tasks EXCEPT ![t] = [@ EXCEPT !.pc = "updateKey"]]
  /\ UNCHANGED <<txs, chain, wsPending, utxos, accounts, gives, withdrawals,
                 deposits, running, budget>>

\* A store call of processLinkCommand throws: the command reports it.
LinkStoreFails(t) ==
  /\ running /\ budget.faults > 0
  /\ tasks[t].pc \in {"getSecret", "updateUser"}
  /\ tasks' = [tasks EXCEPT ![t] = Done(@, "store_error")]
  /\ budget' = [budget EXCEPT !.faults = @ - 1]
  /\ UNCHANGED <<txs, chain, wsPending, utxos, accounts, userAccount, gives,
                 withdrawals, deposits, running>>

\* The continuation of `await updateUserAccountId`: wallet.updateKey, then
\* the command returns.  updateKey throws on an account the wallet has no
\* member list for: at findIndex for the old one, at push (after the splice)
\* for the new one.
LinkUpdateKey(t) ==
  /\ running
  /\ tasks[t].pc = "updateKey"
  /\ IF tasks[t].acct \notin DOMAIN accounts
     THEN /\ accounts' = accounts
          /\ tasks' = [tasks EXCEPT ![t] = Done(@, "wallet_error")]
     ELSE IF tasks[t].linkAcct \notin DOMAIN accounts
     THEN /\ accounts' = [accounts EXCEPT ![tasks[t].acct] =
                            Splice1(@, FindIndex(@, tasks[t].user))]
          /\ tasks' = [tasks EXCEPT ![t] = Done(@, "wallet_error")]
     ELSE /\ accounts' = updateKey(accounts, tasks[t].user, tasks[t].acct,
                                   tasks[t].linkAcct)
          /\ tasks' = [tasks EXCEPT ![t] = Done(@, "ok")]
  /\ UNCHANGED <<txs, chain, wsPending, utxos, userAccount, gives, withdrawals,
                 deposits, running, budget>>

\* ------------------------------------------------------------ startup
\* The store answers getDeposits(): Handler.init keeps the utxos whose txid
\* has no Deposit record and starts _saveDeposit for the first.
InitGetDeposits(t) ==
  /\ running
  /\ tasks[t].pc = "getDeposits"
  /\ LET known == {deposits[i].txid : i \in DOMAIN deposits}
         q == tasks[t].queue
         newDeposits == SelectSeq2(q, {i \in DOMAIN q : q[i].txid \notin known}, 1)
     IN tasks' = Sweep([tasks EXCEPT ![t] = InitNext([@ EXCEPT !.queue = newDeposits])], 1)
  /\ UNCHANGED <<txs, chain, wsPending, utxos, accounts, userAccount, gives,
                 withdrawals, deposits, running, budget>>

\* WalletManager.init: loadKey of every stored user puts the user into the
\* member list of the account the store assigns.
RECURSIVE MembersOf(_, _, _)
MembersOf(store, a, order) ==
  IF order = <<>> THEN <<>>
  ELSE (IF order[1] \in DOMAIN store /\ store[order[1]] = a
        THEN <<order[1]>> ELSE <<>>)
       \o MembersOf(store, a, Tail(order))
AccountsOfStore(store) ==
  [a \in {store[u] : u \in DOMAIN store} |->
     MembersOf(store, a, <<"u1", "u2", NEW_USER>>)]

\* The process stops (shutdown, crash or deploy) and starts again: every
\* invocation in progress is gone and so are the feed messages not yet
\* handled; WalletManager.init loads each key's utxos from the node and
\* Handler.init starts.
Restart ==
  /\ budget.restarts > 0
  /\ budget' = [budget EXCEPT !.restarts = @ - 1]
  /\ running' = TRUE
  /\ wsPending' = [i \in DOMAIN wsPending |-> 0]
  /\ utxos' = [u \in DOMAIN userAccount |-> ScriptUtxos(chain, u, 1, 1)]
  /\ tasks' = [i \in 1..MaxCmds |->
                 IF tasks[i].pc \in {"new", "done"} THEN tasks[i]
                 ELSE Done(tasks[i], "killed")]
              \o <<LET loaded == FlatUtxos(utxos',
                                   AllMembers(AccountsOfStore(userAccount),
                                              <<"a1", "a2", NEW_ACCOUNT>>))
                  IN [InitTask(utxos') EXCEPT !.queue = loaded,
                                              !.initUtxos = loaded]>>
  /\ accounts' = AccountsOfStore(userAccount)
  /\ UNCHANGED <<txs, chain, userAccount, gives, withdrawals, deposits>>

\* ------------------------------------------------------------------ Next
Next ==
  \/ \E u \in Users : ExtDeposit(u)
  \/ \E u \in Users, v \in Users : ExtDepositPair(u, v)
  \/ \E txid \in DOMAIN txs : Redeliver(txid)
  \/ \E txid \in DOMAIN txs : HandleWsMessage(txid)
  \/ \E txid \in DOMAIN txs : HandleWsMessageFails(txid)
  \/ \E u \in Users : StartBalance(u)
  \/ \E from \in Users, to \in Users, sats \in Amounts : StartGive(from, to, sats)
  \/ \E u \in Users, a \in Users \cup {EXT, INVALID_ADDRESS}, sats \in Amounts :
       StartWithdraw(u, a, sats)
  \/ \E u \in Users, secret \in Secrets : StartLink(u, secret)
  \/ Restart
  \/ \E t \in DOMAIN tasks :
       \/ SaveAccount(t)
       \/ SaveAccountFails(t)
       \/ LoadKey(t)
       \/ GotIds(t)
       \/ LinkGetSecret(t)
       \/ LinkUpdateUser(t)
       \/ LinkStoreFails(t)
       \/ LinkUpdateKey(t)
       \/ InitGetDeposits(t)
       \/ NodeValidate(t)
       \/ NodeValidateFails(t)
       \/ ReconcileResume(t)
       \/ GiveGenTx(t)
       \/ StoreSave(t)
       \/ StoreSaveFails(t)
       \/ NodeBroadcast(t)
       \/ NodeBroadcastFails(t)
       \/ StoreDelete(t)
       \/ DepositIsGiveTx(t)
       \/ DepositIsWithdrawTx(t)
       \/ DepositSave(t)
       \/ DepositStoreFails(t)

Spec == Init /\ [][Next]_vars

\* ================================================================ claims
Cmds == 1..MaxCmds
Outpoints(list) == {toOutpoint(list[i]) : i \in DOMAIN list}
EntriesOf(list, o) == Cardinality({i \in DOMAIN list : toOutpoint(list[i]) = o})
Returns(t, out) == tasks[t].pc # "done" /\ tasks'[t].pc = "done" /\ tasks'[t].out = out

\* ---- C1: no user's UTXO list ever holds two entries with the same
\* (txid, outIdx), however often the feed delivers a transaction's message
\* and however the handlers interleave; and right after a message was
\* handled, every output of its transaction that pays a tracked script has
\* exactly one entry in that user's list.
NoDuplicateOutpoints ==
  \A u \in DOMAIN utxos : \A i, j \in DOMAIN utxos[u] :
    toOutpoint(utxos[u][i]) = toOutpoint(utxos[u][j]) => i = j
HandledOnce ==
  \A txid \in DOMAIN txs :
    HandleWsMessage(txid) =>
      \A i \in DOMAIN txs[txid].outs :
        txs[txid].outs[i].script \in Members(accounts) =>
          EntriesOf(utxos'[txs[txid].outs[i].script],
                    [txid |-> txid, outIdx |-> i - 1]) = 1
C1_NoDoubleCount == [](NoDuplicateOutpoints) /\ [][HandledOnce]_vars

\* A give was accepted, both of its messages (sender's and recipient's
\* script) were handled, none was lost, and the recipient holds the output
\* once.
C1_Witness ==
  \E t \in Cmds :
    /\ tasks[t].kind = "give" /\ tasks[t].out = "ok"
    /\ Cardinality(Subscribers(txs[tasks[t].tx], accounts)) = 2
    /\ wsPending[tasks[t].tx] = 0
    /\ budget.faults = MaxFaults /\ budget.restarts = 0 /\ budget.ext = 0
    /\ EntriesOf(utxos[tasks[t].to], [txid |-> tasks[t].tx, outIdx |-> 0]) = 1

\* ---- C2: getAccountBalance re-validates every member's outpoints before
\* it sums: when _reconcileUtxos resumes without throwing, the member's list
\* and the amount added to the balance hold no outpoint the node answered
\* SPENT, NO_SUCH_TX or NO_SUCH_OUTPUT, and none that was already spent on
\* the node when the query was made.
BalanceExcludesSpent ==
  \A t \in DOMAIN tasks :
    (ReconcileResume(t) /\ Len(tasks[t].snap) <= Len(tasks[t].res)) =>
      LET u == tasks[t].bUser IN
      /\ \A i \in DOMAIN tasks[t].snap :
           tasks[t].res[i] # "UNSPENT" =>
             toOutpoint(tasks[t].snap[i]) \notin Outpoints(utxos'[u])
      /\ Outpoints(utxos'[u]) \cap tasks[t].spentAtCall = {}
      /\ t \in Cmds => tasks'[t].bal = tasks[t].bal + SumValues(utxos'[u])
WithdrawalCompensated ==
  \A t \in Cmds :
    tasks[t].kind = "withdraw" =>
      /\ (tasks[t].pc = "broadcast" /\ tasks'[t].pc = "done")
            => tasks'[t].out \in {"ok", "killed"}
      /\ Returns(t, "broadcast_failed")
            => \A w \in withdrawals' : w.txid # tasks[t].tx
GiveCompensated ==
  \A t \in Cmds :
    tasks[t].kind = "give" =>
      /\ (tasks[t].pc = "broadcast" /\ tasks'[t].pc = "done")
            => tasks'[t].out \in {"ok", "killed"}
      /\ Returns(t, "broadcast_failed")
            => \A g \in gives' : g.txid # tasks[t].tx
NoOrphanGive ==
  \A g \in gives :
    g.txid \notin chain =>
      \E t \in Cmds :
        /\ tasks[t].kind = "give" /\ tasks[t].tx = g.txid
        /\ tasks[t].user = g.fromId
        /\ tasks[t].pc \in {"broadcast", "delete"} \/ tasks[t].out = "killed"
RecordOf(task) ==
  IF task.kind = "give" THEN GiveRecord(task) \in gives
  ELSE WithdrawalRecord(task) \in withdrawals
RecordedWhileBroadcast ==
  \A t \in Cmds :
    (tasks[t].pc = "broadcast" \/ (tasks[t].kind \in {"give", "withdraw"}
                                   /\ tasks[t].out = "ok"))
      => RecordOf(tasks[t])
SaveGuardsBroadcast ==
  \A t \in Cmds :
    (tasks[t].pc = "save" /\ tasks'[t] # tasks[t]) =>
      \/ tasks'[t].pc = "broadcast" /\ chain' = chain
      \/ /\ tasks'[t].pc = "done"
         /\ tasks'[t].out \in {"save_failed", "killed"}
         /\ chain' = chain
C5_RecordBeforeBroadcast == [](RecordedWhileBroadcast) /\ [][SaveGuardsBroadcast]_vars

\* One command returned its success with its record in the store and another
\* ended at a failed store write with its transaction not accepted.
C5_Witness ==
  \E t, t2 \in Cmds :
    /\ tasks[t].kind \in {"give", "withdraw"} /\ tasks[t].out = "ok"
    /\ RecordOf(tasks[t]) /\ tasks[t].tx \in chain
    /\ tasks[t2].out = "save_failed" /\ tasks[t2].tx \notin chain

\* ---- C6: from the build of a give's or withdrawal's transaction to the
\* report of its failure (store write failed, broadcast failed, record
\* deleted) no step of the command changes any user's UTXO list.
FailedTransferKeepsLedger ==
  \A t \in Cmds :
    (/\ tasks[t].pc \in {"save", "broadcast", "delete"}
     /\ tasks'[t] # tasks[t]
     /\ tasks'[t].out \notin {"ok", "killed"}) => utxos' = utxos
C6_FailedTransferKeepsLedger == [][FailedTransferKeepsLedger]_vars

\* A command reported a failed broadcast and the inputs of its transaction
\* are still in their owner's list.
C6_Witness ==
  \E t \in Cmds :
    /\ tasks[t].out = "broadcast_failed"
    /\ \A o \in Range(txs[tasks[t].tx].ins) : o \in Outpoints(utxos[OutpointScript(o)])

Decides(t) == DepositIsGiveTx(t) \/ DepositIsWithdrawTx(t)
GoesOn(t, pcs) ==
  /\ Len(tasks') = Len(tasks)
  /\ tasks'[t].utxo = tasks[t].utxo
  /\ tasks'[t].pc \in pcs
ReturnsUnwritten(t) ==
  /\ deposits' = deposits
  /\ ~GoesOn(t, {"isWithdrawTx", "saveDeposit"})
WithdrawalOutputRule ==
  \A t \in DOMAIN tasks :
    (Decides(t) /\ isWithdrawTx(tasks[t].utxo.txid)) =>
      IF tasks[t].utxo.outIdx = WITHDRAW_CHANGE_OUTIDX
      THEN ReturnsUnwritten(t)
      ELSE GoesOn(t, {"isWithdrawTx", "saveDeposit"})
C8_AsStated == [][WithdrawalOutputRule]_vars

\* ---- C8 (amended): for a UTXO whose txid is a recorded Withdrawal and was
\* not found recorded as a Give by _saveDeposit's isGiveTx lookup,
\* _saveDeposit returns without a write for the change output and sends
\* saveDeposit for any other output, whose execution appends the Deposit; no
\* Deposit record is ever the change output of a recorded Withdrawal.
NoDepositForWithdrawalChange ==
  \A i \in DOMAIN deposits :
    ~(isWithdrawTx(deposits[i].txid) /\ deposits[i].outIdx = WITHDRAW_CHANGE_OUTIDX)
WithdrawalOutputRuleAfterGiveLookup ==
  \A t \in DOMAIN tasks :
    /\ (DepositIsWithdrawTx(t) /\ isWithdrawTx(tasks[t].utxo.txid)) =>
         IF tasks[t].utxo.outIdx = WITHDRAW_CHANGE_OUTIDX
         THEN ReturnsUnwritten(t)
         ELSE GoesOn(t, {"saveDeposit"})
    /\ DepositSave(t) => deposits' = Append(deposits, tasks[t].utxo)
C8_WithdrawalOutputs ==
  [](NoDepositForWithdrawalChange) /\ [][WithdrawalOutputRuleAfterGiveLookup]_vars

\* A withdrawal to the address of tracked user u2 succeeded with change;
\* both outputs are in the ledger, the destination output has its Deposit
\* and the change output has none.
C8_Witness ==
  \E t \in Cmds :
    /\ tasks[t].kind = "withdraw" /\ tasks[t].out = "ok" /\ tasks[t].to = "u2"
    /\ isWithdrawTx(tasks[t].tx)
    /\ [txid |-> tasks[t].tx, outIdx |-> 1] \in Outpoints(utxos[tasks[t].user])
    /\ Len(tasks) = MaxCmds
    /\ \E i \in DOMAIN deposits :
         deposits[i].txid = tasks[t].tx /\ deposits[i].outIdx = 0
                                          /\ deposits[i].userId = "u2"
    /\ \A i \in DOMAIN deposits :
         deposits[i].txid = tasks[t].tx => deposits[i].outIdx # 1

\* ---- C9 (as the specification states it): a Deposit record whose txid is a
\* recorded Withdrawal of the same user is that withdrawal's change output,
\* and the change output of a recorded Withdrawal is the exception that does
\* get its Deposit.
SameUserOnlyChange ==
  \A i \in DOMAIN deposits : \A w \in withdrawals :
    (w.txid = deposits[i].txid /\ w.userId = deposits[i].userId)
      => deposits[i].outIdx = WITHDRAW_CHANGE_OUTIDX
ChangeOutputDeposited ==
  \A t \in DOMAIN tasks :
    (/\ DepositIsWithdrawTx(t)
     /\ isWithdrawTx(tasks[t].utxo.txid)
     /\ tasks[t].utxo.outIdx = WITHDRAW_CHANGE_OUTIDX) => GoesOn(t, {"saveDeposit"})
ConsumedRemoved ==
  \A t \in Cmds :
    Returns(t, "ok") /\ tasks[t].kind \in {"give", "withdraw"} =>
      \A u \in DOMAIN utxos :
        Outpoints(utxos'[u]) = Outpoints(utxos[u]) \ Range(txs[tasks[t].tx].ins)
C10_ConsumedRemoved == [][ConsumedRemoved]_vars

\* ---- C11 (as the specification states it): whatever the interleaving, an
\* outpoint enters a user's list only in a step that observes the node for
\* the user's script (the load of the key, a mempool message) and pays that
\* script, and it leaves the list only when the node no longer has it
\* unspent (consumed by an accepted transaction, or never there); so an
\* outpoint a mempool message appended while reconciliations of the user
\* await the node stays in the list.
AddedFromNode ==
  \A u \in DOMAIN utxos' :
    \A o \in Outpoints(utxos'[u]) \ (IF u \in DOMAIN utxos THEN Outpoints(utxos[u]) ELSE {}) :
      /\ o.txid \in chain /\ OutpointScript(o) = u
      /\ \/ \E txid \in DOMAIN txs : HandleWsMessage(txid) /\ o.txid = txid
         \/ \E t \in DOMAIN tasks : LoadKey(t)
         \/ Restart
RemovedWhenGone ==
  \A u \in DOMAIN utxos :
    \A o \in Outpoints(utxos[u]) \ Outpoints(utxos'[u]) :
      UtxoState(chain, o) # "UNSPENT"
C11_LedgerFollowsNode == [][AddedFromNode /\ RemovedWhenGone]_vars

\* The balance of an account as the node has it: the unspent outputs paying
\* the scripts of the account's members.
NodeBalance(ch, accountId) ==
  LET of(u) == IF u \in Range(accounts[accountId])
               THEN SumValues(ScriptUtxos(ch, u, 1, 1)) ELSE 0
  IN of("u1") + of("u2") + of(NEW_USER)
InputAmount(body) ==
  SumValues([i \in DOMAIN body.ins |->
               [value |-> txs[body.ins[i].txid].outs[body.ins[i].outIdx + 1].value]])
\* A give or withdrawal of account A is accepted by the node in this step;
\* its inputs and its change belong to members of A and its destination
\* does not.
Transfers(t) ==
  /\ NodeBroadcast(t)
  /\ LET body == txs[tasks[t].tx]
         A == Range(accounts[tasks[t].acct])
     IN /\ \A i \in DOMAIN body.ins : OutpointScript(body.ins[i]) \in A
        /\ body.outs[1].script \notin A
        /\ Len(body.outs) = 2 => body.outs[2].script \in A

\* ---- C12 (as the specification states it): a successful transfer of
\* amountSats takes the balance of the source account from B to
\* B - amountSats - fee when the transaction has no change output and to
\* B - amountSats when it has one, and never below zero.
ConservationAsStated ==
  \A t \in Cmds :
    Transfers(t) =>
      LET body == txs[tasks[t].tx]
          fee == InputAmount(body) - SumValues(body.outs)
          pre == NodeBalance(chain, tasks[t].acct)
          post == NodeBalance(chain', tasks[t].acct)
      IN /\ post >= 0
         /\ post = IF Len(body.outs) = 1 THEN pre - tasks[t].sats - fee
                   ELSE pre - tasks[t].sats
C12_AsStated == [][ConservationAsStated]_vars

\* ---- C12 (amended): the fee of a transfer is the estimated size times the
\* fee rate.  When the selected inputs cover amountSats + fee the destination
\* receives amountSats, the surplus returns as change and the balance of the
\* source account goes from B to B - amountSats - fee; when they do not, the
\* fee is taken from the destination output and the balance goes to
\* B - amountSats.  There is a change output exactly when the inputs exceed
\* the destination output plus the fee.  The balance never goes below zero.
Conservation ==
  \A t \in Cmds :
    Transfers(t) =>
      LET body == txs[tasks[t].tx]
          fee == EstimateSize(Len(body.ins)) * FEE_RATE
          inAmt == InputAmount(body)
          sats == tasks[t].sats
          pre == NodeBalance(chain, tasks[t].acct)
          post == NodeBalance(chain', tasks[t].acct)
      IN /\ inAmt - SumValues(body.outs) = fee
         /\ post >= 0
         /\ IF sats + fee > inAmt
            THEN body.outs[1].value = sats - fee /\ post = pre - sats
            ELSE body.outs[1].value = sats /\ post = pre - sats - fee
         /\ Len(body.outs) = 2 <=> inAmt > body.outs[1].value + fee
C12_Conservation == [][Conservation]_vars

\* A give of 10,000,000 sats from the 50,000,000 sat output succeeded with a
\* change output, and the node has the sender's account at
\* 50,000,000 - 10,000,000 - fee.
C12_Witness ==
  \E t \in Cmds :
    /\ tasks[t].kind = "give" /\ tasks[t].out = "ok"
    /\ tasks[t].sats = 10 * XPI_DIVISOR
    /\ Len(txs[tasks[t].tx].outs) = 2
    /\ tasks[t].acct \in DOMAIN accounts
    /\ NodeBalance(chain, tasks[t].acct)
         = InitValue - tasks[t].sats - EstimateSize(1) * FEE_RATE

\* ---- C13: updateKey(userId, A, B) called for accounts A and B of the
\* wallet and a userId that is a member of A takes the user out of A's
\* member list (the other members keep their
\* order), appends it to B's, and leaves every other account's list and
\* every user's UTXO list as they were.
Occurrences(arr, x) == Cardinality({i \in DOMAIN arr : arr[i] = x})
UpdateKeyMoves ==
  \A t \in Cmds :
    (/\ LinkUpdateKey(t)
     /\ {tasks[t].acct, tasks[t].linkAcct} \subseteq DOMAIN accounts
     /\ Occurrences(accounts[tasks[t].acct], tasks[t].user) = 1) =>
      LET u == tasks[t].user
          A == tasks[t].acct
          B == tasks[t].linkAcct
      IN /\ accounts'[A] = SelectSeq(accounts[A], LAMBDA x : x # u)
         /\ accounts'[B] = Append(accounts[B], u)
         /\ \A a \in DOMAIN accounts \ {A, B} : accounts'[a] = accounts[a]
         /\ DOMAIN accounts' = DOMAIN accounts
         /\ utxos' = utxos
C13_UpdateKeyMoves == [][UpdateKeyMoves]_vars

\* A link command returned its success; its user is in the new account's
\* list and no longer in the old one's, with its UTXO still in its list.
C13_Witness ==
  \E t \in Cmds :
    /\ tasks[t].kind = "link" /\ tasks[t].out = "ok" /\ tasks[t].user = "u1"
    /\ accounts[tasks[t].acct] = <<>>
    /\ accounts[tasks[t].linkAcct] = <<"u2", "u1">>
    /\ utxos["u1"] # <<>>

\* ---- C14 (as the specification states it): in every reachable state each
\* loaded userId is in exactly one account's member list, exactly once.
C14_OneAccountPerUser ==
  \A u \in DOMAIN utxos :
    Cardinality({<<a, i>> \in
                   UNION {{<<b, j>> : j \in DOMAIN accounts[b]} : b \in DOMAIN accounts} :
                   accounts[a][i] = u}) = 1

\* ---- C15: a link command whose secret maps to no account, or to the
\* account _getIds returned for the caller, ends at the lookup with an error
\* and changes neither the store's user-to-account assignment nor the
\* wallet's member lists; with a secret of another account the store's
\* updateUserAccountId assigns the caller to that account and the wallet's
\* updateKey puts the caller into that account's member list before the
\* command returns its success.
LinkRejectsOrApplies ==
  \A t \in Cmds :
    (tasks[t].kind = "link" /\ tasks'[t] # tasks[t] /\ tasks'[t].out # "killed") =>
      LET u == tasks[t].user
          secret == tasks[t].to
          noMatch == secret \notin DOMAIN userAccount
          own == ~noMatch /\ userAccount[secret] = tasks[t].acct
      IN /\ (tasks[t].pc = "getSecret" /\ (noMatch \/ own)) =>
              /\ tasks'[t].pc = "done"
              /\ tasks'[t].out \in {"invalid_secret", "own_or_linked", "store_error"}
              /\ tasks'[t].out = "invalid_secret" <=> noMatch /\ tasks'[t].out # "store_error"
              /\ userAccount' = userAccount /\ accounts' = accounts
         /\ (tasks[t].pc = "getSecret" /\ ~(noMatch \/ own)) =>
              /\ tasks'[t].linkAcct = userAccount[secret] \/ tasks'[t].out = "store_error"
              /\ userAccount' = userAccount /\ accounts' = accounts
         /\ (tasks[t].pc = "updateUser" /\ tasks'[t].out # "store_error") =>
              userAccount'[u] = tasks[t].linkAcct /\ tasks'[t].pc = "updateKey"
         /\ tasks'[t].out = "ok" =>
              /\ tasks[t].pc = "updateKey"
              /\ u \in Range(accounts'[tasks[t].linkAcct])
BalanceSumsMembers ==
  \A t \in Cmds :
    (Returns(t, "ok") /\ tasks'[t].kind = "balance") =>
      LET acct == tasks'[t].acct
      IN IF tasks[t].pc = "validated"
         THEN tasks[t].members = accounts'[acct] =>
                Append(tasks[t].counted, tasks[t].bUser) = accounts'[acct]
         ELSE accounts'[acct] = <<>> /\ tasks'[t].bal = 0
C16_BalanceSumsMembers == [][BalanceSumsMembers]_vars

\* u1 was linked into u2's account; a balance query of u2 then returned the
\* value of u1's UTXO.
C16_Witness ==
  \E t, t2 \in Cmds :
    /\ t < t2
    /\ tasks[t].kind = "link" /\ tasks[t].out = "ok" /\ tasks[t].user = "u1"
    /\ tasks[t2].kind = "balance" /\ tasks[t2].out = "ok" /\ tasks[t2].user = "u2"
    /\ tasks[t2].acct = tasks[t].linkAcct
    /\ accounts[tasks[t2].acct] = <<"u2", "u1">>
    /\ accounts[tasks[t].acct] = <<>>
    /\ tasks[t2].bal = InitValue

\* What the store and the wallet hold, the node's chain and the feed.
Effects == <<txs, chain, wsPending, utxos, accounts, userAccount, gives,
             withdrawals, deposits>>

\* ---- C17: a give of less than MIN_OUTPUT_AMOUNT ends when it arrives with
\* the minimum error: the ledger, the member lists and the store are as they
\* were (no account is created for an unknown sender or recipient), no
\* transaction is built and nothing is sent to the node; the command never
\* runs on.
GiveBelowMinimum ==
  \A t \in Cmds :
    (tasks[t].kind = "idle" /\ tasks'[t].kind = "give" /\ tasks'[t].sats < 1000) =>
      /\ tasks'[t].pc = "done" /\ tasks'[t].out = "minimum"
      /\ UNCHANGED Effects
SmallGiveIsOver ==
  \A t \in Cmds :
    (tasks[t].kind = "give" /\ tasks[t].sats < 1000) =>
      tasks[t].pc = "done" /\ tasks[t].out = "minimum" /\ tasks[t].tx = 0
C17_GiveBelowMinimum == [](SmallGiveIsOver) /\ [][GiveBelowMinimum]_vars

\* A give of 500 sats by a platform user the store does not know was
\* refused, and the store and the wallet still do not know the user.
C17_Witness ==
  \E t \in Cmds :
    /\ tasks[t].kind = "give" /\ tasks[t].out = "minimum" /\ tasks[t].sats = 500
    /\ tasks[t].user = NEW_USER
    /\ NEW_USER \notin DOMAIN userAccount /\ NEW_USER \notin DOMAIN utxos
    /\ NEW_ACCOUNT \notin DOMAIN accounts

\* ---- C18: a withdrawal to a string that is no address, or of an amount
\* that is zero or below MIN_OUTPUT_AMOUNT, ends when it arrives with the
\* error for the address or the minimum and changes nothing: the ledger,
\* the member lists, the store, the node and the feed are as they were.
WithdrawValidation ==
  \A t \in Cmds :
    (/\ tasks[t].kind = "idle" /\ tasks'[t].kind = "withdraw"
     /\ tasks'[t].to = INVALID_ADDRESS \/ tasks'[t].sats < 1000) =>
      /\ tasks'[t].pc = "done"
      /\ tasks'[t].out =
           IF tasks'[t].to = INVALID_ADDRESS THEN "invalid_address" ELSE "minimum"
      /\ UNCHANGED Effects
BadWithdrawIsOver ==
  \A t \in Cmds :
    (/\ tasks[t].kind = "withdraw"
     /\ tasks[t].to = INVALID_ADDRESS \/ tasks[t].sats < 1000) =>
      /\ tasks[t].pc = "done" /\ tasks[t].tx = 0
      /\ tasks[t].out \in {"invalid_address", "minimum"}
C18_WithdrawValidation == [](BadWithdrawIsOver) /\ [][WithdrawValidation]_vars

\* A withdrawal of a valid amount to a string that is no address and a
\* withdrawal of 0 sats to an outside address were both refused.
C18_Witness ==
  \E t, t2 \in Cmds :
    /\ tasks[t].kind = "withdraw" /\ tasks[t].out = "invalid_address"
    /\ tasks[t].to = INVALID_ADDRESS /\ tasks[t].sats >= 1000
    /\ tasks[t2].kind = "withdraw" /\ tasks[t2].out = "minimum"
    /\ tasks[t2].to = EXT /\ tasks[t2].sats = 0
    /\ withdrawals = {} /\ chain = {1}

\* ---- C19 (as the specification states it): a withdrawal to the caller's
\* own address is rejected: no transaction is built for it, so no Withdrawal
\* record is written and nothing is broadcast.
C19_SelfWithdrawalRejected ==
  \A t \in Cmds :
    (tasks[t].kind = "withdraw" /\ tasks[t].to = tasks[t].user) => tasks[t].tx = 0

\* ---- C20 (as the specification states it): the step in which a give or a
\* withdrawal answers insufficient balance leaves the ledger, the member
\* lists and the store as they were.
InsufficientChangesNothing ==
  \A t \in Cmds :
    Returns(t, "insufficient") =>
      UNCHANGED <<utxos, accounts, userAccount, gives, withdrawals, deposits, chain>>
C20_AsStated == [][InsufficientChangesNothing]_vars

\* ---- C20 (amended): when the balance validated for a give or a withdrawal
\* is below the amount, the command ends with the insufficient-balance
\* error; it has built no transaction, written no Give or Withdrawal record
\* and sent nothing to the node, and the store and the member lists are as
\* they were in that step.  The ledger is not: the validation replaces the
\* list of each member it reconciles.  Nor is the store as before the
\* command when the caller was unknown: _getIds has created its account.
InsufficientRejected ==
  \A t \in Cmds :
    (/\ tasks[t].kind \in {"give", "withdraw"}
     /\ tasks[t].pc = "validated"
     /\ tasks'[t].pc \notin {"validate", "validated"}
     /\ tasks'[t].out \notin {"balance_error", "killed"}
     /\ tasks'[t].sats > tasks'[t].bal) =>
      /\ tasks'[t].pc = "done" /\ tasks'[t].out = "insufficient"
      /\ tasks'[t].tx = 0
      /\ UNCHANGED <<txs, chain, wsPending, accounts, userAccount, gives,
                     withdrawals, deposits>>
      /\ \A u \in DOMAIN utxos \ {tasks[t].bUser} : utxos'[u] = utxos[u]
      /\ utxos'[tasks[t].bUser] = Reconciled(tasks[t])
InsufficientIsOver ==
  \A t \in Cmds :
    tasks[t].out = "insufficient" =>
      /\ tasks[t].kind \in {"give", "withdraw"} /\ tasks[t].pc = "done"
      /\ tasks[t].tx = 0 /\ tasks[t].sats > tasks[t].bal
C20_InsufficientRejected == [](InsufficientIsOver) /\ [][InsufficientRejected]_vars

\* A give by a platform user the store did not know was refused for
\* insufficient balance, and the user now has an account in the store and
\* a key and a member list in the wallet.
C20_Witness ==
  \E t \in Cmds :
    /\ tasks[t].kind = "give" /\ tasks[t].out = "insufficient"
    /\ tasks[t].user = NEW_USER /\ tasks[t].bal = 0
    /\ NEW_USER \in DOMAIN userAccount /\ NEW_USER \in DOMAIN utxos
    /\ NEW_ACCOUNT \in DOMAIN accounts /\ accounts[NEW_ACCOUNT] = <<NEW_USER>>
    /\ gives = {} /\ chain = {1}

\* Handler.init returns in this step: its loop has run out of new deposits
\* without throwing.
InitCompletes(t) ==
  /\ tasks[t].kind = "init"
  /\ \A t2 \in DOMAIN tasks' : tasks'[t2].kind # "init"
  /\ running'

\* ---- C21 (as the specification states it): when Handler.init returns,
\* every UTXO the ledger held when init read it, by txid and output index,
\* that is no output of a recorded give and no change output of a recorded
\* withdrawal has a Deposit record: those that had none went through
\* _saveDeposit.
Backfilled(initUtxos) ==
  \A i \in DOMAIN initUtxos :
    LET x == initUtxos[i] IN
    (~isGiveTx(x.txid) /\ ~SkipsWithdrawal(x)) =>
      \E d \in DOMAIN deposits' :
        deposits'[d].txid = x.txid /\ deposits'[d].outIdx = x.outIdx
StartupBackfills ==
  \A t \in DOMAIN tasks : InitCompletes(t) => Backfilled(tasks[t].initUtxos)
C21_StartupBackfills == [][StartupBackfills]_vars

\* _saveDeposit throws inside walletUtxoAddedToMempool, the handler of one
\* feed event: a store call fails, chronik.validateUtxos fails, or the
\* balance of the depositor's account cannot be computed.
FeedEventThrows(t) ==
  /\ tasks[t].kind = "deposit"
  /\ \/ DepositStoreFails(t)
     \/ NodeValidateFails(t)
     \/ ReconcileResume(t) /\ Len(tasks[t].snap) > Len(tasks[t].res)
     \/ DepositSave(t) /\ userAccount[tasks[t].user] \notin DOMAIN accounts

\* ---- C23 (as the specification states it): an exception raised while
\* one feed event's deposit is saved stays with that event: the service is
\* still running after it, so later feed events are still handled.
C23_FeedExceptionIsolated ==
  [][\A t \in DOMAIN tasks : FeedEventThrows(t) => running']_vars

\* Handler.init has returned: no startup reconciliation is in progress.
StartupCompleted == \A t \in DOMAIN tasks : tasks[t].kind # "init"

\* Command t ends in this step by throwing to its caller, the platform
\* adapter: every outcome but "ok" is an Error thrown by the
\* process...Command method, except "killed", the outcome of an invocation
\* the process end cut short, which throws to nobody.
CommandThrows(t) ==
  /\ tasks[t].pc # "done"
  /\ IsCmd(tasks'[t]) /\ tasks'[t].pc = "done"
  /\ tasks'[t].out \notin {"ok", "killed"}

\* ---- C24: once startup has completed, a command that throws ends alone:
\* the process keeps running, so that later commands are processed, and
\* the other commands are at the step they were at, none of them ended.
C24_CommandExceptionIsolated ==
  [][\A t \in 1..MaxCmds :
       (StartupCompleted /\ running /\ CommandThrows(t)) =>
         /\ running'
         /\ \A t2 \in (1..MaxCmds) \ {t} :
              /\ tasks'[t2].kind = tasks[t2].kind
              /\ tasks'[t2].pc = tasks[t2].pc
              /\ tasks'[t2].out = tasks[t2].out]_vars
\* A give whose broadcast threw has reported the failure, and the same give,
\* saved after the first one's record was deleted, went through.
C24_Witness ==
  /\ running /\ StartupCompleted
  /\ tasks[1].kind = "give" /\ tasks[1].pc = "done"
  /\ tasks[1].out = "broadcast_failed"
  /\ tasks[2].kind = "give" /\ tasks[2].pc = "done" /\ tasks[2].out = "ok"
  /\ tasks[2].tx = tasks[1].tx

\* ---- C25 (as the specification states it): there is no partial start:
\* while Handler.init, the last step of LotusBot.init, has not returned, no
\* platform command and no feed event is being processed.
C25_NoPartialStart ==
  ~StartupCompleted => \A t \in DOMAIN tasks : tasks[t].kind \in {"idle", "init"}

\* Give or withdraw command t leaves getAccountBalance in this step with a
\* balance that covers its amount.
PassesSufficiency(t) ==
  /\ tasks[t].kind \in {"give", "withdraw"}
  /\ tasks[t].pc = "validated"
  /\ tasks[t].bIdx = Len(accounts[tasks[t].acct])
  /\ Len(tasks[t].snap) <= Len(tasks[t].res)
  /\ ReconcileResume(t)
  /\ tasks[t].bal + SumValues(Reconciled(tasks[t])) >= tasks[t].sats

\* Two commands of one account are both past the sufficiency check, both
\* recorded and both at broadcastTx, with transactions that spend a common
\* outpoint and amounts each within, and together beyond, what the
\* account's unspent outputs are worth.
UnspentWorth(accountId) ==
  LET all == UNION {Range(utxos[u]) : u \in Range(accounts[accountId])}
      live == {x \in all : UtxoState(chain, toOutpoint(x)) = "UNSPENT"}
      RECURSIVE Total(_)
      Total(S) == IF S = {} THEN 0
                  ELSE LET x == CHOOSE y \in S : TRUE
                       IN x.value + Total(S \ {x})
  IN Total(live)
Overspend(t1, t2) ==
  /\ t1 # t2
  /\ tasks[t1].kind \in {"give", "withdraw"}
  /\ tasks[t2].kind \in {"give", "withdraw"}
  /\ tasks[t1].acct = tasks[t2].acct
  /\ tasks[t1].pc = "broadcast" /\ tasks[t2].pc = "broadcast"
  /\ Range(txs[tasks[t1].tx].ins) \cap Range(txs[tasks[t2].tx].ins) # {}
  /\ tasks[t1].sats <= UnspentWorth(tasks[t1].acct)
  /\ tasks[t2].sats <= UnspentWorth(tasks[t1].acct)
  /\ tasks[t1].sats + tasks[t2].sats > UnspentWorth(tasks[t1].acct)

\* ---- C26: commands are not serialized per account: a give or withdrawal
\* whose balance covers its amount goes on to build its transaction
\* whatever the other commands of the account are doing, so two of them can
\* both pass the check and both reach the broadcast (C26_Witness).
C26_NotSerialized ==
  [][\A t \in 1..MaxCmds :
       PassesSufficiency(t) =>
         \/ tasks'[t].pc \in {"getToIds", "save"}
         \/ tasks'[t].pc = "done" /\ tasks'[t].out = "gentx_error"]_vars
C26_Witness == \E t1 \in 1..MaxCmds, t2 \in 1..MaxCmds : Overspend(t1, t2)

\* ============================================= transaction construction
\* _genTx and its callers on ledgers of every shape.  Users u1 and u2 are
\* linked in account a1 (members in that order), u3 has its own account.  The
\* ledger holds up to MaxGenUtxos outside deposits to u1 and u2 of GenValues
\* sats each.  A give of u1 to u3 of an amount of GenAmounts, not below
\* MIN_OUTPUT_AMOUNT, has passed its balance check and is at `_getIds(toId)`;
\* the balance it saw is the ledger's, or it counted one output of InitValue
\* more that a concurrent _reconcileUtxos has dropped since.
GenValues == {600, 1000, InitValue}
GenAmounts == {1000, 1600, 10 * XPI_DIVISOR}
GenOwners == {"u1", "u2"}
GenLedgers ==
  UNION {[1..n -> GenOwners \X GenValues] : n \in 0..MaxGenUtxos}

InitGenTx ==
  /\ \E deps \in GenLedgers :
       /\ txs = [k \in DOMAIN deps |->
                   [ins |-> <<>>,
                    outs |-> <<[script |-> deps[k][1], value |-> deps[k][2]]>>,
                    nonce |-> k]]
       /\ chain = DOMAIN deps
       /\ wsPending = [k \in DOMAIN deps |-> 0]
  /\ utxos = [u \in Users |-> ScriptUtxos(chain, u, 1, 1)]
  /\ accounts = [a \in AccountIds |->
                   CASE a = "a1" -> <<"u1", "u2">>
                     [] a = "a2" -> <<>>
                     [] OTHER -> <<NEW_USER>>]
  /\ userAccount = [u \in Users |-> IF u = NEW_USER THEN NEW_ACCOUNT ELSE "a1"]
  /\ gives = {}
  /\ withdrawals = {}
  /\ deposits = getUtxos(utxos)
  /\ \E sats \in GenAmounts, dropped \in {0, InitValue} :
       LET bal == SumValues(FlatUtxos(utxos, accounts["a1"])) + dropped
       IN /\ sats <= bal
          /\ tasks = [i \in 1..MaxCmds |->
                        IF i = 1
                        THEN [NewTask("give", "u1", NEW_USER, sats) EXCEPT
                                !.pc = "getToIds", !.acct = "a1", !.bal = bal]
                        ELSE Idle]
  /\ running = TRUE
  /\ budget = [cmds |-> 0, ext |-> 0, redeliver |-> 0, faults |-> MaxFaults,
               restarts |-> 0, links |-> 0, newcomers |-> 0, pairs |-> 0]

NextGenTx ==
  \E t \in 1..MaxCmds :
    \/ GiveGenTx(t)
    \/ StoreSave(t)
    \/ StoreSaveFails(t)
    \/ NodeBroadcast(t)
    \/ NodeBroadcastFails(t)
    \/ StoreDelete(t)

SpecGenTx == InitGenTx /\ [][NextGenTx]_vars

\* Command t has built its transaction.
Built(t) == tasks[t].kind \in {"give", "withdraw"} /\ tasks[t].tx # 0
\* The UTXOs of the source account of command t in ledger order: member by
\* member, each member's list in list order.
LedgerOrder(t) == FlatUtxos(utxos, accounts[tasks[t].acct])
\* The key whose address takes the change: that of the last input.
LastKey(body) == OutpointScript(body.ins[Len(body.ins)])

\* ---- C27 (as the specification states it): the fee is subtracted from the
\* destination output exactly when the selected inputs equal the requested
\* amount, and then there is no change output; otherwise the destination
\* output is the requested amount and a change output to the last
\* contributing key carries inputs - amount - fee.
FeeRuleAsStated ==
  \A t \in Cmds :
    Built(t) =>
      LET body == txs[tasks[t].tx]
          fee == EstimateSize(Len(body.ins)) * FEE_RATE
          inAmt == InputAmount(body)
          sats == tasks[t].sats
      IN IF inAmt = sats
         THEN Len(body.outs) = 1 /\ body.outs[1].value = sats - fee
         ELSE /\ body.outs[1].value = sats
              /\ Len(body.outs) = 2
              /\ body.outs[2].value = inAmt - sats - fee
              /\ body.outs[2].script = LastKey(body)
C27_AsStated == FeeRuleAsStated

\* ---- C27 (amended): the fee, estimated size times fee rate, is subtracted
\* from the destination output exactly when the selected inputs are less
\* than amount + fee; a change output of inputs - amount then exists when
\* the inputs exceed the amount.  Otherwise the destination output is the
\* amount and the change is inputs - amount - fee, with no change output
\* when that is zero.  The change goes to the last contributing key.
FeeRule ==
  \A t \in Cmds :
    Built(t) =>
      LET body == txs[tasks[t].tx]
          fee == EstimateSize(Len(body.ins)) * FEE_RATE
          inAmt == InputAmount(body)
          sats == tasks[t].sats
          dest == IF inAmt < sats + fee THEN sats - fee ELSE sats
          change == inAmt - dest - fee
      IN /\ body.outs[1].value = dest
         /\ body.outs[1].script = tasks[t].to
         /\ Len(body.outs) = (IF change > 0 THEN 2 ELSE 1)
         /\ change > 0 =>
              /\ body.outs[2].value = change
              /\ body.outs[2].script = LastKey(body)
         /\ (inAmt < sats + fee) => change = inAmt - sats
C27_FeeRule == FeeRule
\* Inputs of 1200 sats for an amount of 1000: the inputs exceed the amount
\* but not amount + fee; the destination gets 1000 - 748 and the change
\* output 200.
C27_Witness ==
  \E t \in Cmds :
    /\ Built(t) /\ tasks[t].sats = 1000
    /\ InputAmount(txs[tasks[t].tx]) = 1200
    /\ Len(txs[tasks[t].tx].outs) = 2
    /\ txs[tasks[t].tx].outs[1].value = 252
    /\ txs[tasks[t].tx].outs[2].value = 200

\* ---- C28 (as the specification states it): for a give or withdrawal of at
\* least MIN_OUTPUT_AMOUNT that the balance covers, the destination output
\* of the built transaction is at least DUST_LIMIT, whatever the number of
\* inputs.
C28_DestinationNotDust ==
  \A t \in Cmds :
    (/\ Built(t)
     /\ tasks[t].sats >= MIN_OUTPUT_AMOUNT
     /\ tasks[t].sats <= SumValues(LedgerOrder(t))) =>
      txs[tasks[t].tx].outs[1].value >= DUST_LIMIT

\* ---- C29: the inputs of a built transaction are a prefix of the source
\* account's UTXOs in ledger order; the prefix totals at least the amount
\* and, without its last input, at most the amount.  When no member's own
\* UTXOs cover the amount and the account's do, the transaction is built
\* with inputs of several members.
GreedyPrefix ==
  \A t \in Cmds :
    Built(t) =>
      LET ins == txs[tasks[t].tx].ins
          order == LedgerOrder(t)
          n == Len(ins)
      IN /\ n >= 1 /\ n <= Len(order)
         /\ ins = [i \in 1..n |-> toOutpoint(order[i])]
         /\ SumValues(SubSeq(order, 1, n)) >= tasks[t].sats
         /\ SumValues(SubSeq(order, 1, n - 1)) <= tasks[t].sats
NeedsSeveralMembers(t) ==
  /\ tasks[t].kind = "give" /\ tasks[t].pc # "getToIds"
  /\ \A i \in DOMAIN accounts[tasks[t].acct] :
       SumValues(utxos[accounts[tasks[t].acct][i]]) < tasks[t].sats
  /\ SumValues(LedgerOrder(t)) >= tasks[t].sats
SeveralMembersUsed ==
  \A t \in Cmds :
    NeedsSeveralMembers(t) =>
      /\ Built(t)
      /\ Cardinality({OutpointScript(o) : o \in Range(txs[tasks[t].tx].ins)}) > 1
C29_GreedySelection == GreedyPrefix /\ SeveralMembersUsed
\* 1600 sats built from u1's 600 and u2's two outputs of 600, none of the
\* two members holding 1600.
C29_Witness ==
  \E t \in Cmds :
    /\ NeedsSeveralMembers(t) /\ Built(t)
    /\ tasks[t].sats = 1600
    /\ Len(utxos["u1"]) = 1
    /\ Len(txs[tasks[t].tx].ins) = 3

\* ---- C30 (as the specification states it): when the UTXOs of all members
\* of the source account run out before the amount is covered, _genTx fails
\* with an InsufficientFunds error, and the command saves no record and
\* broadcasts nothing.
Exhausted(t) ==
  /\ tasks[t].pc = "getToIds"
  /\ tasks[t].to \in DOMAIN userAccount /\ tasks[t].to \in DOMAIN utxos
  /\ SumValues(LedgerOrder(t)) < tasks[t].sats
InsufficientFunds ==
  \A t \in Cmds :
    (Exhausted(t) /\ GiveGenTx(t)) =>
      /\ _genTx(utxos, accounts[tasks[t].acct], tasks[t].to, tasks[t].sats)
           = [ok |-> FALSE, err |-> "InsufficientFunds"]
      /\ tasks'[t].pc = "done"
      /\ UNCHANGED <<gives, withdrawals, chain>>
C30_InsufficientFunds == [][InsufficientFunds]_vars

\* ================================================ deposit confirmation
\* The revision with the `confirmed` flag (LotusBot._handleUtxoConfirmed,
\* _initConfirmDeposits, _confirmDeposit; Database.isValidDeposit,
\* confirmDeposit; WalletManager's 'Confirmed' event).  Here a Deposit
\* record carries `confirmed`, its key is the txid, and wsPending[txid] is
\* the sequence of feed messages of the transaction still to come:
\* AddedToMempool, then Confirmed once it is mined.  LotusBot.init registers
\* its handlers only after its last step, so a message that arrives during
\* init finds no listener.
FeedOf == <<"AddedToMempool", "Confirmed">>
Unconfirmed(utxo) ==
  [txid |-> utxo.txid, outIdx |-> utxo.outIdx, value |-> utxo.value,
   userId |-> utxo.userId, confirmed |-> FALSE]

\* Database.isValidDeposit(txid)
isValidDeposit(recs, txid) == \E i \in DOMAIN recs : recs[i].txid = txid
\* Database.confirmDeposit(txid): update where { txid } set confirmed.
confirmEvery(recs, txid) == [i \in DOMAIN recs |-> [recs[i] EXCEPT !.confirmed = TRUE]]
confirmDeposit(recs, txid) ==
  [i \in DOMAIN recs |->
     IF recs[i].txid = txid THEN [recs[i] EXCEPT !.confirmed = TRUE] ELSE recs[i]]

\* _initReconcileDeposits: _saveDeposit for every utxo whose txid has no
\* record.
RECURSIVE Reconcile(_, _)
Reconcile(recs, list) ==
  IF list = <<>> THEN recs
  ELSE Reconcile(IF isValidDeposit(recs, list[1].txid) THEN recs
                 ELSE Append(recs, Unconfirmed(list[1])),
                 Tail(list))
\* chronik.validateUtxos(...).isConfirmed: the transaction is mined, its
\* Confirmed message is not to come any more.
isConfirmed(txid) == "Confirmed" \notin Range(wsPending[txid])
\* _initConfirmDeposits: confirmDeposit for every unconfirmed record whose
\* outpoint the node reports confirmed.
RECURSIVE ConfirmMined(_, _)
ConfirmMined(recs, i) ==
  IF i > Len(recs) THEN recs
  ELSE ConfirmMined(IF ~recs[i].confirmed /\ isConfirmed(recs[i].txid)
                    THEN confirmDeposit(recs, recs[i].txid) ELSE recs,
                    i + 1)

ConfirmInitTask == [NewTask("init", "", "", 0) EXCEPT !.pc = "reconcile"]
Listening ==
  running /\ \A t \in DOMAIN tasks : tasks[t].kind = "init" => tasks[t].pc = "done"

InitConfirm ==
  /\ txs = <<[ins |-> <<>>, outs |-> <<[script |-> "u1", value |-> InitValue]>>,
              nonce |-> 0]>>
  /\ chain = {1}
  /\ utxos = [u \in Users \ {NEW_USER} |->
                IF u = "u1" THEN <<[txid |-> 1, outIdx |-> 0, value |-> InitValue]>>
                ELSE <<>>]
  /\ accounts = [a \in AccountIds \ {NEW_ACCOUNT} |->
                   IF a = "a1" THEN <<"u1">> ELSE <<"u2">>]
  /\ userAccount = [u \in Users \ {NEW_USER} |-> IF u = "u1" THEN "a1" ELSE "a2"]
  /\ gives = {}
  /\ withdrawals = {}
  /\ \E c \in BOOLEAN, q \in {<<>>, <<"Confirmed">>} :
       /\ c => q = <<>>
       /\ deposits = <<[Unconfirmed([txid |-> 1, outIdx |-> 0, value |-> InitValue,
                                     userId |-> "u1"]) EXCEPT !.confirmed = c]>>
       /\ wsPending = <<q>>
  /\ tasks = <<ConfirmInitTask>>
  /\ running = TRUE
  /\ budget = [cmds |-> 0, ext |-> MaxExtDeposits, redeliver |-> 0,
               faults |-> MaxFaults, restarts |-> MaxRestarts, links |-> 0,
               newcomers |-> 0, pairs |-> 0]

\* Someone outside sends DepositValue to a tracked user's address; the feed
\* will announce the transaction and, once it is mined, confirm it.
OutsideDeposit(u) ==
  /\ running /\ budget.ext > 0
  /\ u \in DOMAIN utxos
  /\ txs' = Append(txs, [ins |-> <<>>,
                         outs |-> <<[script |-> u, value |-> DepositValue]>>,
                         nonce |-> Len(txs) + 1])
  /\ chain' = chain \cup {Len(txs) + 1}
  /\ wsPending' = Append(wsPending, FeedOf)
  /\ budget' = [budget EXCEPT !.ext = @ - 1]
  /\ UNCHANGED <<utxos, accounts, userAccount, gives, withdrawals, deposits,
                 tasks, running>>

\* _initReconcileDeposits, complete.
InitReconcileDeposits(t) ==
  /\ running
  /\ tasks[t].kind = "init" /\ tasks[t].pc = "reconcile"
  /\ deposits' = Reconcile(deposits, getUtxos(utxos))
  /\ tasks' = [tasks EXCEPT ![t] = [@ EXCEPT !.pc = "confirm"]]
  /\ UNCHANGED <<txs, chain, wsPending, utxos, accounts, userAccount, gives,
                 withdrawals, running, budget>>

\* _initConfirmDeposits, complete; LotusBot.init then registers the handlers.
InitConfirmDeposits(t) ==
  /\ running
  /\ tasks[t].kind = "init" /\ tasks[t].pc = "confirm"
  /\ deposits' = ConfirmMined(deposits, 1)
  /\ tasks' = [tasks EXCEPT ![t] = Done(@, "initialized")]
  /\ UNCHANGED <<txs, chain, wsPending, utxos, accounts, userAccount, gives,
                 withdrawals, running, budget>>

\* A step of init throws: LotusBot.init logs and shuts down.
InitConfirmFails(t) ==
  /\ running /\ budget.faults > 0
  /\ tasks[t].kind = "init" /\ tasks[t].pc \in {"reconcile", "confirm"}
  /\ tasks' = [tasks EXCEPT ![t] = Done(@, "init_error")]
  /\ running' = FALSE
  /\ budget' = [budget EXCEPT !.faults = @ - 1]
  /\ UNCHANGED <<txs, chain, wsPending, utxos, accounts, userAccount, gives,
                 withdrawals, deposits>>

\* The feed delivers the next message of a transaction while init is still
\* running: AddedToMempool puts the output into the wallet's list, and the
\* event emitted, either one, has no listener.
FeedUnheard(txid) ==
  /\ running /\ ~Listening
  /\ txid \in DOMAIN wsPending /\ wsPending[txid] # <<>>
  /\ wsPending' = [wsPending EXCEPT ![txid] = Tail(@)]
  /\ utxos' = IF Head(wsPending[txid]) = "AddedToMempool"
              THEN WsLoop(txid, txs[txid].outs, 1, accounts,
                          [utxos |-> utxos, emitted |-> <<>>]).utxos
              ELSE utxos
  /\ UNCHANGED <<txs, chain, accounts, userAccount, gives, withdrawals,
                 deposits, tasks, running, budget>>

\* AddedToMempool is delivered: the output goes into the wallet's list and
\* _handleUtxoAddedToMempool starts for it.
FeedAddedToMempool(txid) ==
  /\ Listening
  /\ txid \in DOMAIN wsPending /\ wsPending[txid] # <<>>
  /\ Head(wsPending[txid]) = "AddedToMempool"
  /\ wsPending' = [wsPending EXCEPT ![txid] = Tail(@)]
  /\ LET st == WsLoop(txid, txs[txid].outs, 1, accounts,
                      [utxos |-> utxos, emitted |-> <<>>])
     IN /\ utxos' = st.utxos
        /\ tasks' = tasks \o [i \in DOMAIN st.emitted |->
                                [NewTask("deposit", st.emitted[i].userId, "", 0)
                                   EXCEPT !.utxo = st.emitted[i],
                                          !.pc = "isGiveTx"]]
  /\ UNCHANGED <<txs, chain, accounts, userAccount, gives, withdrawals,
                 deposits, running, budget>>

\* chronik.tx throws in the feed handler: the message is lost.
FeedAddedToMempoolFails(txid) ==
  /\ Listening /\ budget.faults > 0
  /\ txid \in DOMAIN wsPending /\ wsPending[txid] # <<>>
  /\ Head(wsPending[txid]) = "AddedToMempool"
  /\ wsPending' = [wsPending EXCEPT ![txid] = Tail(@)]
  /\ budget' = [budget EXCEPT !.faults = @ - 1]
  /\ UNCHANGED <<txs, chain, utxos, accounts, userAccount, gives, withdrawals,
                 deposits, tasks, running>>

\* _handleUtxoAddedToMempool after isGiveTx and isWithdrawTx.
DepositChecked(t) ==
  /\ Listening
  /\ tasks[t].kind = "deposit" /\ tasks[t].pc = "isGiveTx"
  /\ tasks' = [tasks EXCEPT ![t] =
       IF isGiveTx(@.utxo.txid) \/ isWithdrawTx(@.utxo.txid)
       THEN Done(@, "skipped") ELSE [@ EXCEPT !.pc = "saveDeposit"]]
  /\ UNCHANGED <<txs, chain, wsPending, utxos, accounts, userAccount, gives,
                 withdrawals, deposits, running, budget>>

\* The store executes saveDeposit (deposit.create; confirmed defaults to
\* false).
DepositCreated(t) ==
  /\ Listening
  /\ tasks[t].kind = "deposit" /\ tasks[t].pc = "saveDeposit"
  /\ ~isValidDeposit(deposits, tasks[t].utxo.txid)
  /\ deposits' = Append(deposits, Unconfirmed(tasks[t].utxo))
  /\ tasks' = [tasks EXCEPT ![t] = Done(@, "saved")]
  /\ UNCHANGED <<txs, chain, wsPending, utxos, accounts, userAccount, gives,
                 withdrawals, running, budget>>

\* Confirmed is delivered: _handleUtxoConfirmed(txid) starts.
FeedConfirmed(txid) ==
  /\ Listening
  /\ txid \in DOMAIN wsPending /\ wsPending[txid] # <<>>
  /\ Head(wsPending[txid]) = "Confirmed"
  /\ wsPending' = [wsPending EXCEPT ![txid] = Tail(@)]
  /\ tasks' = Append(tasks, [NewTask("confirm", "", "", 0) EXCEPT
                               !.tx = txid, !.pc = "isValidDeposit"])
  /\ UNCHANGED <<txs, chain, utxos, accounts, userAccount, gives, withdrawals,
                 deposits, running, budget>>

\* _handleUtxoConfirmed after `await this.prisma.isValidDeposit(txid)`.
ConfirmChecked(t) ==
  /\ Listening
  /\ tasks[t].kind = "confirm" /\ tasks[t].pc = "isValidDeposit"
  /\ tasks' = [tasks EXCEPT ![t] =
       IF isValidDeposit(deposits, @.tx) THEN [@ EXCEPT !.pc = "confirmDeposit"]
       ELSE Done(@, "invalid")]
  /\ UNCHANGED <<txs, chain, wsPending, utxos, accounts, userAccount, gives,
                 withdrawals, deposits, running, budget>>

\* The store executes confirmDeposit for _confirmDeposit(txid).
ConfirmStored(t) ==
  /\ Listening
  /\ tasks[t].kind = "confirm" /\ tasks[t].pc = "confirmDeposit"
  /\ deposits' = confirmDeposit(deposits, tasks[t].tx)
  /\ tasks' = [tasks EXCEPT ![t] = Done(@, "confirmed")]
  /\ UNCHANGED <<txs, chain, wsPending, utxos, accounts, userAccount, gives,
                 withdrawals, running, budget>>

\* The process stops and starts again.  Handlers in progress are gone; an
\* AddedToMempool still to come is not sent again; a transaction's
\* Confirmed is still to come if the transaction is not mined by then.
ConfirmRestart ==
  /\ budget.restarts > 0
  /\ budget' = [budget EXCEPT !.restarts = @ - 1]
  /\ running' = TRUE
  /\ \E unmined \in SUBSET {i \in DOMAIN wsPending : ~isConfirmed(i)} :
       wsPending' = [i \in DOMAIN wsPending |->
                       IF i \in unmined THEN <<"Confirmed">> ELSE <<>>]
  /\ utxos' = [u \in DOMAIN utxos |-> ScriptUtxos(chain, u, 1, 1)]
  /\ tasks' = <<ConfirmInitTask>>
  /\ UNCHANGED <<txs, chain, accounts, userAccount, gives, withdrawals, deposits>>

NextConfirm ==
  \/ \E u \in Users : OutsideDeposit(u)
  \/ \E txid \in DOMAIN txs :
       \/ FeedUnheard(txid)
       \/ FeedAddedToMempool(txid)
       \/ FeedAddedToMempoolFails(txid)
       \/ FeedConfirmed(txid)
  \/ \E t \in DOMAIN tasks :
       \/ InitReconcileDeposits(t)
       \/ InitConfirmDeposits(t)
       \/ InitConfirmFails(t)
       \/ DepositChecked(t)
       \/ DepositCreated(t)
       \/ ConfirmChecked(t)
       \/ ConfirmStored(t)
  \/ ConfirmRestart

SpecConfirm == InitConfirm /\ [][NextConfirm]_vars

\* Record i has `confirmed` set in this step.
BecomesConfirmed(i) ==
  /\ i \in DOMAIN deposits' /\ deposits'[i].confirmed
  /\ ~(i \in DOMAIN deposits /\ deposits[i].confirmed)
\* The step is _confirmDeposit(txid) of a Confirmed event's handler, or the
\* startup check finding the record's outpoint confirmed.
ConfirmedBy(txid) ==
  \/ \E t \in DOMAIN tasks :
       tasks[t].kind = "confirm" /\ tasks[t].tx = txid /\ ConfirmStored(t)
  \/ \E t \in DOMAIN tasks : InitConfirmDeposits(t) /\ isConfirmed(txid)
\* The handler of a Confirmed event finds no Deposit record for its txid.
ConfirmsUnknown(t) ==
  /\ tasks[t].kind = "confirm" /\ tasks[t].pc = "isValidDeposit"
  /\ ~isValidDeposit(deposits, tasks[t].tx)
  /\ ConfirmChecked(t)

\* ---- C22: a Deposit record is created unconfirmed; its `confirmed` flag
\* becomes true only in the handling of a Confirmed feed event, or in the
\* startup confirmation check, for the txid of a record that exists already;
\* a Confirmed event for a txid without a record changes nothing; and a
\* record, once confirmed, stays confirmed.
DepositLifecycle ==
  /\ \A i \in DOMAIN deposits' :
       /\ i \notin DOMAIN deposits => ~deposits'[i].confirmed
       /\ BecomesConfirmed(i) =>
            i \in DOMAIN deposits /\ ConfirmedBy(deposits[i].txid)
  /\ \A t \in DOMAIN tasks :
       ConfirmsUnknown(t) =>
         /\ tasks'[t].pc = "done"
         /\ UNCHANGED <<txs, chain, wsPending, utxos, accounts, userAccount,
                        gives, withdrawals, deposits, running>>
  /\ \A i \in DOMAIN deposits :
       /\ i \in DOMAIN deposits'
       /\ deposits'[i].txid = deposits[i].txid
       /\ deposits[i].confirmed => deposits'[i].confirmed
C22_DepositLifecycle == [][DepositLifecycle]_vars
\* The outside deposit went from unseen to a record saved by the live path,
\* and the handler of its Confirmed event has set the record's flag.
C22_Witness ==
  \E t \in DOMAIN tasks, i \in DOMAIN deposits :
    /\ tasks[t].kind = "confirm" /\ tasks[t].out = "confirmed"
    /\ deposits[i].txid = tasks[t].tx /\ deposits[i].confirmed
    /\ \E t2 \in DOMAIN tasks :
         tasks[t2].kind = "deposit" /\ tasks[t2].out = "saved"
         /\ tasks[t2].utxo.txid = tasks[t].tx

\* ============================================ inputs and signing keys
\* Command t builds its transaction in this step.
Constructs(t) == tasks[t].pc # "save" /\ tasks'[t].pc = "save"

\* The transaction a command builds is the one genTx returns for its source
\* account on the ledger of that moment; each input pays the script of a
\* member of the source account, is in that member's list, and the
\* member's key is among the keys the transaction is signed with.
InputsOfSourceAccount ==
  \A t \in Cmds :
    Constructs(t) =>
      LET A == tasks'[t].acct
          body == txs'[tasks'[t].tx]
          tx == genTx(utxos', accounts', A, tasks'[t].to, tasks'[t].sats)
      IN /\ tx.ok /\ tx.body = body
         /\ \A i \in DOMAIN body.ins :
              LET owner == OutpointScript(body.ins[i])
              IN /\ owner \in Range(accounts'[A])
                 /\ body.ins[i] \in Outpoints(utxos'[owner])
                 /\ owner \in Range(tx.signingKeys)

\* ---- C31: every input of a transaction built for a source account is, when
\* the transaction is built, in the list of a member of that account, whose
\* key is among the signing keys; no input belongs to a user outside it.
C31_InputsOfSourceAccount == [][InputsOfSourceAccount]_vars
\* A transaction has been built for an account while the list of a user
\* outside the account held outputs that would have paid for it alone.
C31_Witness ==
  \E t \in Cmds :
    /\ tasks[t].pc = "save"
    /\ txs[tasks[t].tx].ins # <<>>
    /\ \E u \in DOMAIN utxos \ Range(accounts[tasks[t].acct]) :
         SumValues(utxos[u]) > tasks[t].sats

\* ================================================ mempool events applied
\* The feed handler processes one AddedToMempool message of txid in this
\* step (chronik.tx answered).
Delivered(txid) ==
  /\ txid \in DOMAIN wsPending
  /\ wsPending'[txid] = wsPending[txid] - 1
  /\ budget' = budget

\* The outputs of txid as ParsedUtxos, by output index.
OutputsOf(txid) ==
  [i \in DOMAIN txs[txid].outs |->
     [txid |-> txid, outIdx |-> i - 1, value |-> txs[txid].outs[i].value]]

\* The users with a loaded WalletKey (keys[userId], its script subscribed).
Tracked == DOMAIN utxos

\* The outputs of txid that pay tracked user u and are not in u's list.
NewOutputs(txid, u) ==
  {i \in DOMAIN txs[txid].outs :
     /\ txs[txid].outs[i].script = u
     /\ toOutpoint(OutputsOf(txid)[i]) \notin Outpoints(utxos[u])}

\* The 'AddedToMempool' events of this step: each starts one _saveDeposit.
EventsEmitted == SubSeq(tasks', Len(tasks) + 1, Len(tasks'))

MempoolEventApplied ==
  \A txid \in DOMAIN wsPending :
    Delivered(txid) =>
      /\ \A u \in Tracked :
           utxos'[u] = utxos[u] \o SelectSeq2(OutputsOf(txid), NewOutputs(txid, u), 1)
      /\ DOMAIN utxos' = DOMAIN utxos
      /\ \A i \in DOMAIN txs[txid].outs :
           LET u == txs[txid].outs[i].script
               e == [txid |-> txid, outIdx |-> i - 1,
                     value |-> txs[txid].outs[i].value, userId |-> u]
           IN Cardinality({k \in DOMAIN EventsEmitted :
                             EventsEmitted[k].utxo = e})
                = IF u \in Tracked /\ i \in NewOutputs(txid, u) THEN 1 ELSE 0
      /\ \A k \in DOMAIN EventsEmitted :
           /\ EventsEmitted[k].kind = "deposit"
           /\ EventsEmitted[k].utxo.txid = txid

\* ---- C32: on an AddedToMempool message every output that pays a tracked
\* user and is not yet in that user's list is appended to it with its own
\* index and value, one event is emitted per appended output and none for
\* an output already in the list, and the other outputs change nothing.
C32_MempoolEventApplied == [][MempoolEventApplied]_vars
\* The message of a give was handled: the recipient's output and the
\* sender's change output are in their lists, and a _saveDeposit was started
\* for each.
C32_Witness ==
  \E txid \in DOMAIN txs :
    /\ txs[txid].ins # <<>> /\ Len(txs[txid].outs) = 2
    /\ txs[txid].outs[1].script # txs[txid].outs[2].script
    /\ \A i \in 1..2 :
         LET u == txs[txid].outs[i].script
         IN /\ u \in Tracked
            /\ toOutpoint(OutputsOf(txid)[i]) \in Outpoints(utxos[u])
            /\ \E t \in DOMAIN tasks :
                 /\ tasks[t].kind = "deposit" /\ tasks[t].pc = "isGiveTx"
                 /\ tasks[t].utxo.txid = txid /\ tasks[t].utxo.outIdx = i - 1
                 /\ tasks[t].utxo.userId = u

\* ===================================================== _reconcileUtxos
\* _reconcileUtxos on every list: the node has transaction 1 (one output,
\* to u1, unspent), does not have transaction 2 (to u1), has transaction 3
\* (to u1) and transaction 4 (to u2), both spent by transaction 5.  u1's list
\* is any list without repetition of at most MaxRecUtxos of: the output of
\* 1, that of 2, an output 1 that transaction 1 does not have, the output
\* of 3.  u2 is on its own or a member of u1's account.  Balance commands
\* arrive; there is no feed and no transfer.
RecCandidates ==
  {[txid |-> 1, outIdx |-> 0, value |-> 600],
   [txid |-> 2, outIdx |-> 0, value |-> 1000],
   [txid |-> 1, outIdx |-> 1, value |-> 700],
   [txid |-> 3, outIdx |-> 0, value |-> 800]}
RecLists ==
  {l \in UNION {[1..n -> RecCandidates] : n \in 0..MaxRecUtxos} :
     \A i, j \in DOMAIN l : i # j => l[i] # l[j]}

InitReconcile ==
  /\ txs = <<[ins |-> <<>>, outs |-> <<[script |-> "u1", value |-> 600]>>, nonce |-> 1],
             [ins |-> <<>>, outs |-> <<[script |-> "u1", value |-> 1000]>>, nonce |-> 2],
             [ins |-> <<>>, outs |-> <<[script |-> "u1", value |-> 800]>>, nonce |-> 3],
             [ins |-> <<>>, outs |-> <<[script |-> "u2", value |-> 900]>>, nonce |-> 4],
             [ins |-> <<[txid |-> 3, outIdx |-> 0], [txid |-> 4, outIdx |-> 0]>>,
              outs |-> <<[script |-> EXT, value |-> 1700 - EstimateSize(2) * FEE_RATE]>>,
              nonce |-> 0]>>
  /\ chain = {1, 3, 4, 5}
  /\ wsPending = [k \in 1..5 |-> 0]
  /\ \E l \in RecLists :
       utxos = [u \in Users \ {NEW_USER} |->
                  IF u = "u1" THEN l
                  ELSE <<[txid |-> 4, outIdx |-> 0, value |-> 900]>>]
  /\ \E linked \in BOOLEAN :
       /\ accounts = [a \in AccountIds \ {NEW_ACCOUNT} |->
                        IF linked THEN (IF a = "a1" THEN <<"u1", "u2">> ELSE <<>>)
                        ELSE (IF a = "a1" THEN <<"u1">> ELSE <<"u2">>)]
       /\ userAccount = [u \in Users \ {NEW_USER} |->
                           IF linked \/ u = "u1" THEN "a1" ELSE "a2"]
  /\ gives = {}
  /\ withdrawals = {}
  /\ deposits = getUtxos(utxos)
  /\ tasks = [i \in 1..MaxCmds |-> Idle]
  /\ running = TRUE
  /\ budget = [cmds |-> MaxCmds, ext |-> 0, redeliver |-> 0, faults |-> MaxFaults,
               restarts |-> 0, links |-> 0, newcomers |-> 0, pairs |-> 0]

NextReconcile ==
  \/ \E u \in Users \ {NEW_USER} : StartBalance(u)
  \/ \E t \in 1..MaxCmds :
       \/ NodeValidate(t)
       \/ NodeValidateFails(t)
       \/ ReconcileResume(t)

SpecReconcile == InitReconcile /\ [][NextReconcile]_vars

\* The continuation of _reconcileUtxos of task t runs in this step and does
\* not throw.
Reconciles(t) ==
  /\ tasks[t].pc = "validated"
  /\ Len(tasks[t].snap) <= Len(tasks[t].res)
  /\ ReconcileResume(t)

\* With `before` the list _reconcileUtxos read when it was called and `after`
\* the user's list when it returns: the entries of `after` are those of
\* `before` for which validateUtxos answered none of the three states, in
\* the order they had; the lists of the other users are untouched.
ReconcileExact ==
  \A t \in DOMAIN tasks :
    Reconciles(t) =>
      LET u == tasks[t].bUser
          before == tasks[t].snap
          after == utxos'[u]
          gone == {i \in DOMAIN before :
                     tasks[t].res[i] \in {"NO_SUCH_TX", "NO_SUCH_OUTPUT", "SPENT"}}
      IN /\ \E pos \in [DOMAIN after -> DOMAIN before] :
              /\ \A k \in DOMAIN after : after[k] = before[pos[k]]
              /\ \A k, m \in DOMAIN after : k < m => pos[k] < pos[m]
              /\ Range(pos) = DOMAIN before \ gone
         /\ Outpoints(after) \subseteq Outpoints(before)
         /\ \A v \in DOMAIN utxos \ {u} : utxos'[v] = utxos[v]

\* ---- C33: _reconcileUtxos(userId) takes out of the user's list exactly
\* the outpoints whose state on the node is NO_SUCH_TX, NO_SUCH_OUTPUT or
\* SPENT, keeps all the others in their order, adds none, and leaves the
\* other users' lists as they were.
C33_ReconcileExact == [][ReconcileExact]_vars
\* u1's list held an outpoint of each of the four states (the store has the
\* four deposits); its reconciliation has returned and left the unspent one,
\* and the spent output in u2's list is still there.
C33_Witness ==
  \E t \in Cmds :
    /\ Cardinality({i \in DOMAIN deposits : deposits[i].userId = "u1"}) = 4
    /\ "u1" \in Range(tasks[t].counted)
    /\ utxos["u1"] = <<[txid |-> 1, outIdx |-> 0, value |-> 600]>>
    /\ utxos["u2"] = <<[txid |-> 4, outIdx |-> 0, value |-> 900]>>

\* ================================================ one deposit per outpoint
\* Task t has sent saveDeposit for its utxo: an attempt to create the
\* Deposit record of the outpoint.
AttemptsDeposit(t) == tasks[t].pc = "saveDeposit"

\* ---- C34 (as the specification states it): an outpoint has at most one
\* Deposit record, and at most one attempt to create it is ever made: none
\* while the record exists, and no two at once.
C34_OneDepositPerOutpoint ==
  /\ \A i, j \in DOMAIN deposits :
       toOutpoint(deposits[i]) = toOutpoint(deposits[j]) => i = j
  /\ \A t \in DOMAIN tasks :
       AttemptsDeposit(t) =>
         /\ \A i \in DOMAIN deposits :
              toOutpoint(deposits[i]) # toOutpoint(tasks[t].utxo)
         /\ \A t2 \in DOMAIN tasks \ {t} :
              AttemptsDeposit(t2) =>
                toOutpoint(tasks[t2].utxo) # toOutpoint(tasks[t].utxo)

\* ====================================== mempool event during validation
\* The _reconcileUtxos of task t is about to resume, and while it awaited
\* validateUtxos a mempool event pushed into the array it had read: the
\* array is longer than the list of outpoints that was sent.
EventDuringValidation(t) ==
  /\ tasks[t].pc = "validated"
  /\ Len(tasks[t].snap) > tasks[t].sent

\* ---- C35 (as the specification states it): a mempool event that appended a
\* UTXO to a user's list while getAccountBalance awaited the validation of
\* that user's UTXOs does not make the balance query fail, and the new UTXO
\* stays in the list.
C35_EventDuringValidation ==
  [][\A t \in Cmds :
       (EventDuringValidation(t) /\ ReconcileResume(t)) =>
         /\ ~(tasks'[t].pc = "done" /\ tasks'[t].out = "balance_error")
         /\ \A i \in (tasks[t].sent + 1)..Len(tasks[t].snap) :
              toOutpoint(tasks[t].snap[i]) \in Outpoints(utxos'[tasks[t].bUser])]_vars

\* ============================================ commands one after another
\* The service as in Spec, with the platform commands issued one after
\* another: a command arrives only when every earlier one has returned.  The
\* feed delivers and redelivers at any time, and each delivery's
\* _saveDeposit runs beside the commands.  The amounts asked are 10 XPI and
\* what a withdrawal of 10 XPI leaves of the initial deposit.
SeqAmounts ==
  {10 * XPI_DIVISOR, InitValue - 10 * XPI_DIVISOR - EstimateSize(1) * FEE_RATE}

\* No platform command is in progress.
Quiet == \A t \in Cmds : tasks[t].pc \in {"new", "done"}

InitSequential ==
  /\ txs = <<[ins |-> <<>>, outs |-> <<[script |-> "u1", value |-> InitValue]>>,
              nonce |-> 0]>>
  /\ chain = {1}
  /\ wsPending = <<0>>
  /\ utxos = [u \in Users \ {NEW_USER} |->
                IF u = "u1" THEN <<[txid |-> 1, outIdx |-> 0, value |-> InitValue]>>
                ELSE <<>>]
  /\ accounts = [a \in AccountIds \ {NEW_ACCOUNT} |->
                   IF a = "a1" THEN <<"u1">> ELSE <<"u2">>]
  /\ userAccount = [u \in Users \ {NEW_USER} |-> IF u = "u1" THEN "a1" ELSE "a2"]
  /\ gives = {}
  /\ withdrawals = {}
  /\ deposits = <<[txid |-> 1, outIdx |-> 0, value |-> InitValue, userId |-> "u1"]>>
  /\ tasks = [i \in 1..MaxCmds |-> Idle] \o <<InitTask(utxos)>>
  /\ running = TRUE
  /\ budget = [cmds |-> MaxCmds, ext |-> 0, redeliver |-> MaxRedeliver,
               faults |-> MaxFaults, restarts |-> 0, links |-> 0,
               newcomers |-> 0, pairs |-> 0]

NextSequential ==
  \/ \E txid \in DOMAIN txs : Redeliver(txid)
  \/ \E txid \in DOMAIN txs : HandleWsMessage(txid)
  \/ \E txid \in DOMAIN txs : HandleWsMessageFails(txid)
  \/ Quiet /\ \E u \in DOMAIN userAccount : StartBalance(u)
  \/ Quiet /\ \E from \in DOMAIN userAccount, to \in DOMAIN userAccount,
                  sats \in SeqAmounts : StartGive(from, to, sats)
  \/ Quiet /\ \E u \in DOMAIN userAccount, sats \in SeqAmounts :
                StartWithdraw(u, EXT, sats)
  \/ \E t \in DOMAIN tasks :
       \/ InitGetDeposits(t)
       \/ NodeValidate(t)
       \/ NodeValidateFails(t)
       \/ ReconcileResume(t)
       \/ GiveGenTx(t)
       \/ StoreSave(t)
       \/ StoreSaveFails(t)
       \/ NodeBroadcast(t)
       \/ NodeBroadcastFails(t)
       \/ StoreDelete(t)
       \/ DepositIsGiveTx(t)
       \/ DepositIsWithdrawTx(t)
       \/ DepositSave(t)
       \/ DepositStoreFails(t)

SpecSequential == InitSequential /\ [][NextSequential]_vars

\* ---- C36 (as the specification states it): with commands issued one after
\* another, no transaction is built with an input that a transaction
\* broadcast before has consumed.
C36_NoSpentInput ==
  [][\A t \in Cmds :
       Constructs(t) =>
         \A i \in DOMAIN txs'[tasks'[t].tx].ins :
           txs'[tasks'[t].tx].ins[i] \notin SpentOutpoints(chain)]_vars

\* ============================================= store and wallet agreement
\* Command t returns in this step, with a result or with an error.
CommandReturns(t) ==
  /\ tasks[t].pc # "done"
  /\ IsCmd(tasks'[t]) /\ tasks'[t].pc = "done"
  /\ tasks'[t].out # "killed"

\* No command still in progress is creating user u.
NotBeingCreated(u) ==
  \A s \in DOMAIN tasks' : tasks'[s].pc # "done" => tasks'[s].creating # u

\* ---- C37 (as the specification states it): when a command returns, every
\* user the store holds, apart from one a command in progress is creating,
\* has a WalletKey and is a member of an account in WalletManager.
C37_PersistedUsersLoaded ==
  [][\A t \in Cmds :
       CommandReturns(t) =>
         \A u \in DOMAIN userAccount' :
           NotBeingCreated(u) =>
             /\ u \in DOMAIN utxos'
             /\ \E a \in DOMAIN accounts' : u \in Range(accounts'[a])]_vars

====
